---- MODULE Spec2Model ----
(***************************************************************************)
(* Model of the navigation-bar admin back end: the key-value persistence   *)
(* adapter (src/src/utils/kvStorage.js), the whole-tree save handler       *)
(* (src/src/handlers/adminHandler.js), the per-site handlers               *)
(* (src/unnamed/part_001) and the admin client's path resolvers            *)
(* (src/unnamed/part_000).                                                 *)
(*                                                                         *)
(* Representation.  A JavaScript string is a sequence of tokens, so that   *)
(* join('/'), split('/') and trim() are computed and not assumed.  A       *)
(* JavaScript object is a record whose DOMAIN is the set of its own        *)
(* properties ('x' in o  is  "x" \in DOMAIN o).  An array is a sequence.   *)
(* JSON.stringify is injective on the values compared here (objects built  *)
(* with a fixed key order), so equality of two stringifications is         *)
(* equality of the two values.                                             *)
(***************************************************************************)
EXTENDS Integers, Sequences, FiniteSets, TLC

VARIABLES
  snapshot,   \* value stored under SNAPSHOT_KEY: << >> (absent) or << doc >>
  favicons,   \* hosts that have an entry under FAV_PREFIX
  last,       \* the request served last and the response it got
  nreq,       \* number of requests served so far
  adminData,  \* the admin client's loaded document: << >> or << doc >>
  bundled,    \* the worker's in-memory navigationData object (module level)
  kvBound,    \* whether env.NAVIGATION_KV is bound in this deployment
  inflight,   \* requests that have read the store and not yet written
  clock,      \* Date.now(), in days
  favMeta     \* per host, the data and updatedAt of its stored favicon entry

vars == <<snapshot, favicons, last, nreq, adminData, bundled, kvBound,
          inflight, clock, favMeta>>

\* no request is suspended, the clock stands at the time every stored
\* favicon entry was written
Idle ==
  /\ inflight = << >>
  /\ clock = 0
  /\ favMeta = [h \in {"h1", "h2"} |-> [data |-> "i1", updatedAt |-> 0]]

-----------------------------------------------------------------------------
(* Strings *)

EmptyStr == << >>
SLASH == "/"
SPACE == " "

\* String.prototype.trim
RECURSIVE TrimLeft(_)
TrimLeft(s) == IF s # << >> /\ Head(s) = SPACE THEN TrimLeft(Tail(s)) ELSE s

RECURSIVE TrimRight(_)
TrimRight(s) ==
  IF s # << >> /\ s[Len(s)] = SPACE THEN TrimRight(SubSeq(s, 1, Len(s) - 1)) ELSE s

Trim(s) == TrimRight(TrimLeft(s))

\* Array.prototype.join('/')
RECURSIVE JoinSlash(_)
JoinSlash(segs) ==
  IF segs = << >> THEN EmptyStr
  ELSE IF Len(segs) = 1 THEN segs[1]
  ELSE segs[1] \o <<SLASH>> \o JoinSlash(Tail(segs))

\* String.prototype.split('/'): the pieces between the slashes, empty ones kept
RECURSIVE SplitAcc(_, _)
SplitAcc(s, cur) ==
  IF s = << >> THEN <<cur>>
  ELSE IF Head(s) = SLASH THEN <<cur>> \o SplitAcc(Tail(s), EmptyStr)
  ELSE SplitAcc(Tail(s), Append(cur, Head(s)))

SplitSlash(s) == SplitAcc(s, EmptyStr)

\* Array.prototype.filter(Boolean) on an array of strings
FilterNonEmpty(segs) == SelectSeq(segs, LAMBDA x : x # EmptyStr)

MapTrim(segs) == [i \in 1..Len(segs) |-> Trim(segs[i])]

-----------------------------------------------------------------------------
(* Objects *)

Has(o, f) == f \in DOMAIN o

\* o[f] = v as an assignment: sets an own property, adding it when missing
SetField(o, f, v) == (f :> v) @@ o

\* Array.isArray(c.sites) ? c.sites : []
SitesOf(c) == IF Has(c, "sites") THEN c.sites ELSE << >>

\* Array.isArray(c.children) ? c.children : []   (also  c.children || [])
ChildrenOf(c) == IF Has(c, "children") THEN c.children ELSE << >>

\* c.title, undefined read as the empty string
TitleOf(c) == IF Has(c, "title") THEN c.title ELSE EmptyStr

\* c.id || ''
IdOrEmpty(c) == IF Has(c, "id") THEN c.id ELSE EmptyStr

\* c.icon || ''
IconOrEmpty(c) == IF Has(c, "icon") THEN c.icon ELSE EmptyStr

\* the key without its fallback to the title (c.id alone)
KeyOf_IdOnly(c) == IdOrEmpty(c)

\* c.id || c.title
KeyOf(c) == IF IdOrEmpty(c) # EmptyStr THEN c.id ELSE TitleOf(c)

\* index of the first element satisfying Test, 0 when there is none
\* (Array.prototype.findIndex, shifted to 1-based indices)
FindIndex(seq, Test(_)) ==
  IF \E i \in 1..Len(seq) : Test(seq[i])
  THEN CHOOSE i \in 1..Len(seq) : Test(seq[i]) /\ \A j \in 1..(i - 1) : ~Test(seq[j])
  ELSE 0

\* Array.prototype.splice(i, 1)
RemoveAt(seq, i) == SubSeq(seq, 1, i - 1) \o SubSeq(seq, i + 1, Len(seq))

\* Array.prototype.splice(i, 0, x)
InsertAt(seq, i, x) == SubSeq(seq, 1, i - 1) \o <<x>> \o SubSeq(seq, i, Len(seq))

-----------------------------------------------------------------------------
(* Reserved category *)

\* the fixed id, the fixed (Chinese) title and the folder glyph, one token each
UNC_ID == <<"uncategorized">>
UNC_TITLE == <<"Uncategorized">>
FOLDER_ICON == <<"folder">>

\* c && (c.id === 'uncategorized' || c.title === UNC_TITLE)
IsUncategorized(c) == IdOrEmpty(c) = UNC_ID \/ TitleOf(c) = UNC_TITLE

-----------------------------------------------------------------------------
(* src/src/utils/responseUtils.js *)

HTTP_STATUS ==
  [OK |-> 200, BAD_REQUEST |-> 400, UNAUTHORIZED |-> 401, NOT_FOUND |-> 404,
   METHOD_NOT_ALLOWED |-> 405, INTERNAL_SERVER_ERROR |-> 500,
   SERVICE_UNAVAILABLE |-> 503]

\* HTTP_STATUS.<name>: undefined for a name the table does not define
StatusNamed(name) == IF name \in DOMAIN HTTP_STATUS THEN <<HTTP_STATUS[name]>> ELSE << >>

createSuccessResponse(data) == [status |-> HTTP_STATUS.OK, success |-> TRUE, data |-> data]

\* createErrorResponse(error, status = HTTP_STATUS.BAD_REQUEST): the default
\* applies when the argument is undefined
createErrorResponse(error, statusArg) ==
  [status |-> IF statusArg = << >> THEN HTTP_STATUS.BAD_REQUEST ELSE statusArg[1],
   success |-> FALSE,
   data |-> [error |-> error]]

ModeOf(resp) == IF resp.success /\ Has(resp.data, "mode") THEN resp.data.mode ELSE "-"

-----------------------------------------------------------------------------
(* src/src/utils/kvStorage.js: KVStorageManager *)

SNAPSHOT_KEY == "nav:__snapshot__"
LAST_UPDATED == "last_updated"

\* a manager whose request cache already holds a document when the request
\* starts (the module's object), as a cache kept across requests would
NewManager_WarmCache(kvSnapshot) ==
  [kv |-> kvSnapshot, cache |-> <<bundled>>, puts |-> << >>, shared |-> FALSE,
   avail |-> kvBound]

\* new KVStorageManager(env.NAVIGATION_KV): the binding's snapshot value, an
\* empty request cache, and the log of the puts this manager issues; avail
\* is whether the binding exists, shared whether the cached document is the
\* module's navigationData object itself (what is done to one is done to
\* the other)
NewManager(kvSnapshot) ==
  [kv |-> kvSnapshot, cache |-> << >>, puts |-> << >>, shared |-> FALSE,
   avail |-> kvBound]

isAvailable(m) == m.avail

\* #touchLastUpdated
touchLastUpdated(m) == [m EXCEPT !.puts = Append(@, LAST_UPDATED)]

\* getNavigationData: << m', value >>, value << >> standing for null
getNavigationData(m) ==
  IF ~isAvailable(m) THEN [m |-> m, val |-> << >>]
  ELSE IF m.cache # << >> THEN [m |-> m, val |-> m.cache]
  ELSE IF m.kv = << >> THEN [m |-> m, val |-> << >>]
  ELSE [m |-> [m EXCEPT !.cache = m.kv],
        val |-> IF Has(m.kv[1], "categories") THEN m.kv ELSE << >>]

\* saveNavigationData(data): one put of the snapshot key, the cache
\* refreshed, the timestamp touched; answers true. Without a binding it
\* answers false and does nothing.
saveNavigationData(m, data) ==
  IF ~isAvailable(m) THEN m
  ELSE touchLastUpdated([m EXCEPT !.kv = <<data>>,
                                  !.cache = <<data>>,
                                  !.puts = Append(@, SNAPSHOT_KEY)])

\* pathKey inside putFolderNodesBulk, segKey inside the batch handlers
pathKey(segs) == JoinSlash(FilterNonEmpty(MapTrim(segs)))

\* Map.prototype.get / set on a Map kept as a sequence of [key, val] entries
MapHas(map, k) == \E i \in 1..Len(map) : map[i].key = k
MapGet(map, k) == map[CHOOSE i \in 1..Len(map) : map[i].key = k].val
MapSet(map, k, v) ==
  IF MapHas(map, k)
  THEN [i \in 1..Len(map) |-> IF map[i].key = k THEN [key |-> k, val |-> v] ELSE map[i]]
  ELSE Append(map, [key |-> k, val |-> v])

\* the de-duplication loop of putFolderNodesBulk
RECURSIVE DedupUpdates(_, _)
DedupUpdates(updates, dedup) ==
  IF updates = << >> THEN dedup
  ELSE LET u == Head(updates)
           key == pathKey(u.segments)
       IN DedupUpdates(Tail(updates),
                       IF key = EmptyStr THEN dedup ELSE MapSet(dedup, key, u))

\* updateNode inside putFolderNodesBulk: the categories after the in-place
\* assignment  hit.sites = safeSites
RECURSIVE updateNode(_, _, _, _)
updateNode(cats, segs, idx, dedup) ==
  IF idx > Len(segs) THEN cats
  ELSE LET h == FindIndex(cats, LAMBDA c : TitleOf(c) = segs[idx])
       IN IF h = 0 THEN cats
          ELSE IF idx = Len(segs)
          THEN LET k == pathKey(segs)
                   safeSites == IF MapHas(dedup, k) /\ Has(MapGet(dedup, k).node, "sites")
                                THEN MapGet(dedup, k).node.sites
                                ELSE << >>
               IN [cats EXCEPT ![h] = SetField(@, "sites", safeSites)]
          ELSE IF Has(cats[h], "children")
          THEN [cats EXCEPT ![h] =
                  SetField(@, "children", updateNode(cats[h].children, segs, idx + 1, dedup))]
          ELSE cats

\* the loop over dedup.entries()
RECURSIVE ApplyUpdates(_, _, _)
ApplyUpdates(cats, entries, dedup) ==
  IF entries = << >> THEN cats
  ELSE LET segs == FilterNonEmpty(SplitSlash(Head(entries).key))
       IN ApplyUpdates(IF segs = << >> THEN cats ELSE updateNode(cats, segs, 1, dedup),
                       Tail(entries), dedup)

\* putFolderNodesBulk writing the snapshot once for each update it applies
RECURSIVE PutEach(_, _, _)
PutEach(m, entries, dedup) ==
  IF entries = << >> THEN m
  ELSE LET segs == FilterNonEmpty(SplitSlash(Head(entries).key))
           cats == IF segs = << >> THEN m.kv[1].categories
                   ELSE updateNode(m.kv[1].categories, segs, 1, dedup)
           snap == [m.kv[1] EXCEPT !.categories = cats]
       IN PutEach(touchLastUpdated([m EXCEPT !.kv = <<snap>>, !.cache = <<snap>>,
                                             !.puts = Append(@, SNAPSHOT_KEY)]),
                  Tail(entries), dedup)

putFolderNodesBulk_PutPerUpdate(m, updates) ==
  IF updates = << >> THEN m
  ELSE LET dedup == DedupUpdates(updates, << >>)
           r == getNavigationData(m)
       IN IF r.val # << >> /\ Has(r.val[1], "categories")
          THEN PutEach([r.m EXCEPT !.kv = r.val], dedup, dedup)
          ELSE r.m

\* putFolderNodesBulk(updates): the manager afterwards
putFolderNodesBulk(m, updates) ==
  IF updates = << >> THEN m
  ELSE LET dedup == DedupUpdates(updates, << >>)
           r == getNavigationData(m)
       IN IF r.val # << >> /\ Has(r.val[1], "categories")
          THEN LET snap == [r.val[1] EXCEPT
                              !.categories = ApplyUpdates(@, dedup, dedup)]
               IN touchLastUpdated([r.m EXCEPT !.kv = <<snap>>,
                                               !.cache = <<snap>>,
                                               !.puts = Append(@, SNAPSHOT_KEY)])
          ELSE r.m

-----------------------------------------------------------------------------
(* src/src/handlers/adminHandler.js: handleSaveAdminData *)

NewUncategorized ==
  [id |-> UNC_ID, title |-> UNC_TITLE, icon |-> FOLDER_ICON, sites |-> << >>,
   children |-> << >>]

\* the field repairs of ensureUncategorized on an existing reserved category
RepairUncategorized(unc) ==
  LET u1 == IF IdOrEmpty(unc) = EmptyStr THEN SetField(unc, "id", UNC_ID) ELSE unc
      u2 == IF TitleOf(u1) = EmptyStr THEN SetField(u1, "title", UNC_TITLE) ELSE u1
      u3 == IF ~Has(u2, "icon") THEN SetField(u2, "icon", FOLDER_ICON) ELSE u2
      u4 == IF ~Has(u3, "sites") THEN SetField(u3, "sites", << >>) ELSE u3
  IN IF ~Has(u4, "children") THEN SetField(u4, "children", << >>) ELSE u4

\* ensureUncategorized(cats): the array after the in-place normalisation
ensureUncategorized(cats) ==
  LET i == FindIndex(cats, IsUncategorized)
      cats1 == IF i = 0 THEN Append(cats, NewUncategorized)
               ELSE [cats EXCEPT ![i] = RepairUncategorized(@)]
      idx == FindIndex(cats1, IsUncategorized)
  IN IF idx >= 1 /\ idx # Len(cats1)
     THEN Append(RemoveAt(cats1, idx), cats1[idx])
     ELSE cats1

\* norm comparing the root level only
normStructure_RootOnly(cats) ==
  [i \in 1..Len(cats) |-> [id |-> IdOrEmpty(cats[i]), title |-> TitleOf(cats[i])]]

\* norm inside isSameStructure
RECURSIVE normStructure(_)
normStructure(cats) ==
  [i \in 1..Len(cats) |->
     [id |-> IdOrEmpty(cats[i]), title |-> TitleOf(cats[i]),
      children |-> normStructure(ChildrenOf(cats[i]))]]

isSameStructure(aCats, bCats) == normStructure(aCats) = normStructure(bCats)

\* norm inside isSameMeta
RECURSIVE normMeta(_)
normMeta(cats) ==
  [i \in 1..Len(cats) |->
     [id |-> IdOrEmpty(cats[i]), title |-> TitleOf(cats[i]),
      icon |-> IconOrEmpty(cats[i]),
      children |-> normMeta(ChildrenOf(cats[i]))]]

isSameMeta(aCats, bCats) == normMeta(aCats) = normMeta(bCats)

\* byId.get(key) for byId = new Map(currCats.map(c => [c.id || c.title, c])):
\* the last category with that key, << >> when there is none
ByIdGet(currCats, key) ==
  IF \E i \in 1..Len(currCats) : KeyOf(currCats[i]) = key
  THEN <<currCats[CHOOSE i \in 1..Len(currCats) :
                    /\ KeyOf(currCats[i]) = key
                    /\ \A j \in (i + 1)..Len(currCats) : KeyOf(currCats[j]) # key]>>
  ELSE << >>

\* walk pushing the key (id, else title) of a category as its segment
RECURSIVE walk_KeySegments(_, _, _)
walk_KeySegments(currCats, nextCats, segments) ==
  IF nextCats = << >> THEN << >>
  ELSE LET nc == Head(nextCats)
           cc == ByIdGet(currCats, KeyOf(nc))
           segs == Append(segments, KeyOf(nc))
       IN (IF cc = << >> THEN << >>
           ELSE (IF SitesOf(cc[1]) # SitesOf(nc)
                 THEN <<[segments |-> segs, node |-> [sites |-> SitesOf(nc)]]>>
                 ELSE << >>)
                \o walk_KeySegments(ChildrenOf(cc[1]), ChildrenOf(nc), segs))
          \o walk_KeySegments(currCats, Tail(nextCats), segments)

\* walk(currCats, nextCats) with the segments pushed so far: the updates it
\* pushes, in order
RECURSIVE walk(_, _, _)
walk(currCats, nextCats, segments) ==
  IF nextCats = << >> THEN << >>
  ELSE LET nc == Head(nextCats)
           cc == ByIdGet(currCats, KeyOf(nc))
           segs == Append(segments, TitleOf(nc))
       IN (IF cc = << >> THEN << >>
           ELSE (IF SitesOf(cc[1]) # SitesOf(nc)
                 THEN <<[segments |-> segs, node |-> [sites |-> SitesOf(nc)]]>>
                 ELSE << >>)
                \o walk(ChildrenOf(cc[1]), ChildrenOf(nc), segs))
          \o walk(currCats, Tail(nextCats), segments)

CatsOf(doc) == IF Has(doc, "categories") THEN doc.categories ELSE << >>

\* the outcome of a handler: the store afterwards, the response, the puts it
\* issued and the argument it handed to putFolderNodesBulk (<< >> when it
\* did not call it)
Outcome(m, resp, bulk) ==
  [kv |-> m.kv, resp |-> resp, puts |-> m.puts, bulk |-> bulk,
   bundle |-> IF m.shared THEN m.cache[1] ELSE bundled]

\* handleSaveAdminData for a POST with the given JSON body
handleSaveAdminData(kvSnapshot, body) ==
  IF ~Has(body, "data")
  THEN Outcome(NewManager(kvSnapshot),
               createErrorResponse("bad-format", StatusNamed("BAD_REQUEST")), << >>)
  ELSE IF ~isAvailable(NewManager(kvSnapshot))
  THEN Outcome(NewManager(kvSnapshot),
               createErrorResponse("kv unavailable", StatusNamed("SERVICE_UNAVAILABLE")), << >>)
  ELSE
  LET r == getNavigationData(NewManager(kvSnapshot))
  IN IF r.val = << >>
     THEN \* first initialisation: the payload is written as it is
          Outcome(saveNavigationData(r.m, body.data),
                  createSuccessResponse([message |-> "saved"]), << >>)
     ELSE
     LET currentData == r.val[1]
         incoming == IF Has(body.data, "categories")
                     THEN [body.data EXCEPT !.categories = ensureUncategorized(@)]
                     ELSE body.data
     IN IF ~isSameStructure(CatsOf(currentData), CatsOf(incoming))
        THEN Outcome(saveNavigationData(r.m, incoming),
                     createSuccessResponse([message |-> "saved", mode |-> "snapshot"]),
                     << >>)
        ELSE IF ~isSameMeta(CatsOf(currentData), CatsOf(incoming))
        THEN Outcome(saveNavigationData(r.m, incoming),
                     createSuccessResponse([message |-> "saved", mode |-> "snapshot-meta"]),
                     << >>)
        ELSE
        LET updates == walk(CatsOf(currentData), CatsOf(incoming), << >>)
        IN IF updates = << >>
           THEN Outcome(r.m, createSuccessResponse([message |-> "skipped", mode |-> "noop"]),
                        << >>)
           ELSE Outcome(putFolderNodesBulk(r.m, updates),
                        createSuccessResponse([message |-> "saved", mode |-> "bulk-sites"]),
                        updates)

-----------------------------------------------------------------------------
(* Trees: positions, as the index paths of the admin client (1-based here) *)

RECURSIVE AllIndexPaths(_)
AllIndexPaths(cats) ==
  UNION {{<<i>>} \cup {<<i>> \o q : q \in AllIndexPaths(ChildrenOf(cats[i]))}
         : i \in 1..Len(cats)}

RECURSIVE NodeAt(_, _)
NodeAt(cats, path) ==
  IF Len(path) = 1 THEN cats[path[1]]
  ELSE NodeAt(ChildrenOf(cats[path[1]]), Tail(path))

RECURSIVE ReplaceAt(_, _, _)
ReplaceAt(cats, path, n) ==
  IF Len(path) = 1 THEN [cats EXCEPT ![path[1]] = n]
  ELSE [cats EXCEPT ![path[1]] =
          SetField(@, "children", ReplaceAt(ChildrenOf(@), Tail(path), n))]

\* the sibling array that holds the node at path
SiblingsAt(cats, path) ==
  IF Len(path) = 1 THEN cats
  ELSE ChildrenOf(NodeAt(cats, SubSeq(path, 1, Len(path) - 1)))

\* the tree with the sibling array that holds the node at path replaced
ReplaceSiblingsAt(cats, path, sibs) ==
  IF Len(path) = 1 THEN sibs
  ELSE LET pp == SubSeq(path, 1, Len(path) - 1)
       IN ReplaceAt(cats, pp, SetField(NodeAt(cats, pp), "children", sibs))

\* the titles from the root down to the node at path
TitlePathOf(cats, path) ==
  [i \in 1..Len(path) |-> TitleOf(NodeAt(cats, SubSeq(path, 1, i)))]

RECURSIVE CountNodes(_)
CountNodes(cats) ==
  IF cats = << >> THEN 0
  ELSE 1 + CountNodes(ChildrenOf(Head(cats))) + CountNodes(Tail(cats))

RECURSIVE CountSites(_)
CountSites(cats) ==
  IF cats = << >> THEN 0
  ELSE Len(SitesOf(Head(cats))) + CountSites(ChildrenOf(Head(cats)))
       + CountSites(Tail(cats))

-----------------------------------------------------------------------------
(* The values requests are built from *)

A == <<"a">>
B == <<"b">>
AB == <<"a", "/", "b">>
ICON1 == <<"i1">>
ICON2 == <<"i2">>
U1 == <<"https://", "h1">>
U2 == <<"https://", "h2">>
S1 == [title |-> <<"s">>, url |-> U1, description |-> <<"d">>]
S2 == [title |-> <<"t">>, url |-> U1, description |-> <<"d">>]
S3 == [title |-> <<"s">>, url |-> U2, description |-> <<"e">>]
P0 == [name |-> <<"n0">>]
P1 == [name |-> <<"n1">>]

Titles == {A, B, AB, UNC_TITLE}
Icons == {ICON1, ICON2}
Profiles == {P0, P1}
SiteLists == {<< >>, <<S1>>, <<S2, S3>>}

\* a root category as handleAddCategory and the bundled data shape it
Cat(id, title, sites, children) ==
  [id |-> id, title |-> title, icon |-> ICON1, sites |-> sites, children |-> children]

\* a subcategory as the admin client's add-subcategory dialog shapes it
Sub(title, sites, children) ==
  [title |-> title, icon |-> ICON1, sites |-> sites, children |-> children]

Unc(sites) == [NewUncategorized EXCEPT !.sites = sites]

Doc(cats) == [profile |-> P0, categories |-> cats]

\* documents an administrator imports (the first write stores them as they
\* are): the bundled shape, nesting, a title holding a slash next to the
\* path it spells, ids crossing titles, no reserved category, sibling
\* subcategories of one title, the reserved category first or incomplete
ImportDocs ==
  { Doc(<<Cat(A, B, <<S1>>, << >>), Unc(<< >>)>>),
    Doc(<<Cat(A, A, <<S1>>, <<Sub(B, <<S2>>, << >>)>>), Unc(<<S3>>)>>),
    Doc(<<Cat(A, A, << >>, <<Sub(B, <<S1>>, << >>), Sub(A, << >>, << >>)>>),
          Cat(B, AB, <<S2>>, << >>), Unc(<< >>)>>),
    Doc(<<Cat(A, B, <<S1>>, << >>), Cat(B, A, <<S2>>, << >>)>>),
    Doc(<<Cat(A, A, << >>, <<Sub(B, <<S1>>, << >>), Sub(B, <<S2>>, << >>)>>),
          Unc(<< >>)>>),
    Doc(<<Unc(<<S1>>), Cat(A, A, << >>, <<Sub(A, << >>, << >>)>>)>>),
    Doc(<<Cat(A, A, <<S1>>, << >>), [id |-> UNC_ID, title |-> UNC_TITLE]>>),
    Doc(<< >>) }

\* src/src/data/navigationData.js: the bundled document as the module
\* defines it, one sample category with sites and the reserved one last
navigationData == Doc(<<Cat(A, B, <<S1>>, << >>), Unc(<< >>)>>)

MaxNodes == 5
MaxRequests == 2

-----------------------------------------------------------------------------
(* The payloads of POST /api/admin/data: the persisted document as the     *)
(* admin client edits or replaces it before posting it whole               *)

\* the node the add-subcategory dialog pushes
NewSubcategory(title) == Sub(title, << >>, << >>)

SwapWithNext(seq, i) ==
  [j \in 1..Len(seq) |-> IF j = i THEN seq[i + 1] ELSE IF j = i + 1 THEN seq[i] ELSE seq[j]]

\* the edits: what is changed, where, and the value used
Edits(doc) ==
  LET cats == CatsOf(doc)
      paths == AllIndexPaths(cats)
  IN {[kind |-> "same", path |-> << >>, arg |-> << >>]}
     \cup {[kind |-> "profile", path |-> << >>, arg |-> v] : v \in Profiles \ {doc.profile}}
     \cup {[kind |-> "sites", path |-> p, arg |-> sl] : p \in paths, sl \in SiteLists}
     \cup {[kind |-> "rename", path |-> p, arg |-> t] : p \in paths, t \in Titles}
     \cup {[kind |-> "icon", path |-> p, arg |-> ic] : p \in paths, ic \in Icons}
     \cup {[kind |-> "remove", path |-> p, arg |-> << >>] : p \in paths}
     \cup {[kind |-> "reorder", path |-> p, arg |-> << >>] :
             p \in {q \in paths : q[Len(q)] < Len(SiblingsAt(cats, q))}}
     \cup {[kind |-> "add", path |-> p, arg |-> t] :
             p \in IF CountNodes(cats) < MaxNodes THEN paths \cup {<< >>} ELSE {},
             t \in Titles}

\* the payload an edit produces from the document the client loaded
ApplyEdit(doc, e) ==
  LET cats == CatsOf(doc)
      n == NodeAt(cats, e.path)
      WithCats(c) == [doc EXCEPT !.categories = c]
  IN CASE e.kind = "same" -> doc
       [] e.kind = "profile" -> [doc EXCEPT !.profile = e.arg]
       [] e.kind = "sites" -> WithCats(ReplaceAt(cats, e.path, SetField(n, "sites", e.arg)))
       [] e.kind = "rename" -> WithCats(ReplaceAt(cats, e.path, SetField(n, "title", e.arg)))
       [] e.kind = "icon" -> WithCats(ReplaceAt(cats, e.path, SetField(n, "icon", e.arg)))
       [] e.kind = "remove" ->
            WithCats(ReplaceSiblingsAt(cats, e.path,
                       RemoveAt(SiblingsAt(cats, e.path), e.path[Len(e.path)])))
       [] e.kind = "reorder" ->
            WithCats(ReplaceSiblingsAt(cats, e.path,
                       SwapWithNext(SiblingsAt(cats, e.path), e.path[Len(e.path)])))
       [] e.kind = "add" ->
            IF e.path = << >> THEN WithCats(Append(cats, NewSubcategory(e.arg)))
            ELSE WithCats(ReplaceAt(cats, e.path,
                            SetField(n, "children",
                                     Append(ChildrenOf(n), NewSubcategory(e.arg)))))

-----------------------------------------------------------------------------
(* Requests *)

NoRequest ==
  [op |-> "none", body |-> << >>, edit |-> << >>, before |-> << >>,
   resp |-> createSuccessResponse([message |-> "none"]), puts |-> << >>, bulk |-> << >>,
   mem |-> navigationData]

Served(op, body, edit, out) ==
  /\ snapshot' = out.kv
  /\ last' = [op |-> op, body |-> body, edit |-> edit, before |-> snapshot,
              resp |-> out.resp, puts |-> out.puts, bulk |-> out.bulk, mem |-> bundled]
  /\ nreq' = nreq + 1

Init ==
  /\ snapshot = << >>
  /\ favicons = {}
  /\ last = NoRequest
  /\ nreq = 0
  /\ adminData = << >>
  /\ bundled = navigationData
  /\ kvBound = TRUE
  /\ Idle

\* POST /api/admin/data with an imported document
ImportData ==
  /\ nreq < MaxRequests
  /\ \E d \in ImportDocs :
       Served("save", [data |-> d], [kind |-> "import", path |-> << >>, arg |-> << >>],
              handleSaveAdminData(snapshot, [data |-> d]))
  /\ UNCHANGED <<favicons, adminData, bundled, kvBound, inflight, clock, favMeta>>

\* POST /api/admin/data with the loaded document, edited
SaveAdminData ==
  /\ nreq < MaxRequests
  /\ snapshot # << >>
  /\ \E e \in Edits(snapshot[1]) :
       LET body == [data |-> ApplyEdit(snapshot[1], e)]
       IN Served("save", body, e, handleSaveAdminData(snapshot, body))
  /\ UNCHANGED <<favicons, adminData, bundled, kvBound, inflight, clock, favMeta>>

\* POST /api/admin/data without a data field
SaveBadRequest ==
  /\ nreq < MaxRequests
  /\ Served("save", [other |-> << >>], [kind |-> "bad", path |-> << >>, arg |-> << >>],
            handleSaveAdminData(snapshot, [other |-> << >>]))
  /\ UNCHANGED <<favicons, adminData, bundled, kvBound, inflight, clock, favMeta>>

NextSave == ImportData \/ SaveAdminData \/ SaveBadRequest

SpecSave == Init /\ [][NextSave]_vars

-----------------------------------------------------------------------------
(* Vocabulary of the properties *)

SaveServed == last.op = "save" /\ Has(last.body, "data")

\* the request found a document with a categories array in the store
HadDocument == last.before # << >> /\ Has(last.before[1], "categories")

BeforeCats == CatsOf(last.before[1])

Succeeded == last.resp.success

\* the key a sibling is told apart by: its id, or its title when it has none
SiblingKey(c) == IF Has(c, "id") /\ c.id # EmptyStr THEN c.id ELSE TitleOf(c)

RECURSIVE UniqueSiblingKeys(_)
UniqueSiblingKeys(cats) ==
  /\ \A i, j \in 1..Len(cats) : i # j => SiblingKey(cats[i]) # SiblingKey(cats[j])
  /\ \A i \in 1..Len(cats) : UniqueSiblingKeys(ChildrenOf(cats[i]))

Reserved(c) ==
  \/ (Has(c, "id") /\ c.id = UNC_ID)
  \/ (Has(c, "title") /\ c.title = UNC_TITLE)

\* the first root category carrying the reserved id or title is the last
\* root category and has an id, a title and an icon
ReservedLastAndComplete(cats) ==
  /\ cats # << >>
  /\ Reserved(cats[Len(cats)])
  /\ \A i \in 1..(Len(cats) - 1) : ~Reserved(cats[i])
  /\ LET u == cats[Len(cats)]
     IN /\ Has(u, "id") /\ u.id # EmptyStr
        /\ Has(u, "title") /\ u.title # EmptyStr
        /\ Has(u, "icon")

SnapshotPuts == SelectSeq(last.puts, LAMBDA k : k = SNAPSHOT_KEY)

-----------------------------------------------------------------------------
(* C1 *)

-----------------------------------------------------------------------------
(* C2 *)

EditedNode == NodeAt(BeforeCats, last.edit.path)

\* the payload differs from the persisted tree in the sites of one category
SitesOnlyEdit ==
  /\ SaveServed /\ HadDocument
  /\ last.edit.kind = "sites"
  /\ SitesOf(EditedNode) # last.edit.arg

OneUpdateForEditedNode ==
  /\ ModeOf(last.resp) = "bulk-sites"
  /\ last.bulk = <<[segments |-> TitlePathOf(BeforeCats, last.edit.path),
                    node |-> [sites |-> last.edit.arg]]>>

\* C2 as stated: a payload that differs from the persisted tree only in the
\* sites of one category makes the handler hand putFolderNodesBulk exactly
\* one update, for that category's title path, with the payload's sites.
C2_OneUpdateForEveryTree == SitesOnlyEdit => OneUpdateForEditedNode

\* C2 amended: the same, for a persisted tree whose reserved category is the
\* last root category and complete and whose sibling categories have
\* distinct keys.
C2_OneUpdateWhenNormalised ==
  (/\ SitesOnlyEdit
   /\ ReservedLastAndComplete(BeforeCats)
   /\ UniqueSiblingKeys(BeforeCats))
    => OneUpdateForEditedNode

C2_Witness ==
  /\ SitesOnlyEdit
  /\ ReservedLastAndComplete(BeforeCats) /\ UniqueSiblingKeys(BeforeCats)
  /\ Len(last.edit.path) = 2
  /\ OneUpdateForEditedNode

-----------------------------------------------------------------------------
(* C3 *)

RECURSIVE Shape(_)
Shape(cats) ==
  [i \in 1..Len(cats) |->
     <<IF Has(cats[i], "id") THEN cats[i].id ELSE EmptyStr, TitleOf(cats[i]),
       Shape(ChildrenOf(cats[i]))>>]

\* the payload differs from the persisted tree by a category added, removed,
\* renamed or swapped with its next sibling
StructuralEdit ==
  /\ SaveServed /\ HadDocument
  /\ \/ last.edit.kind \in {"add", "remove", "reorder"}
     \/ last.edit.kind = "rename" /\ TitleOf(EditedNode) # last.edit.arg

FullWrite ==
  /\ ModeOf(last.resp) = "snapshot"
  /\ last.bulk = << >>
  /\ last.puts = <<SNAPSHOT_KEY, LAST_UPDATED>>
  /\ snapshot # << >>
  /\ snapshot[1].profile = last.body.data.profile
  /\ SelectSeq(CatsOf(snapshot[1]), LAMBDA c : ~Reserved(c))
       = SelectSeq(CatsOf(last.body.data), LAMBDA c : ~Reserved(c))

\* the edit removes a reserved root category or moves one a place forward
TouchesReservedRoot ==
  /\ Len(last.edit.path) = 1
  /\ \/ last.edit.kind = "remove" /\ Reserved(EditedNode)
     \/ last.edit.kind = "reorder" /\ Reserved(BeforeCats[last.edit.path[1] + 1])

\* the edit swaps two siblings of the same id, title and descendant structure
SwapsLookAlikes ==
  /\ last.edit.kind = "reorder"
  /\ LET sibs == SiblingsAt(BeforeCats, last.edit.path)
         i == last.edit.path[Len(last.edit.path)]
     IN Shape(<<sibs[i]>>) = Shape(<<sibs[i + 1]>>)

\* C3 as stated: any category added, removed, renamed or reordered at any
\* depth makes the handler write the whole payload (mode snapshot), never
\* noop or bulk-sites.
C3_FullWriteForEveryStructuralEdit == StructuralEdit => FullWrite

\* C3 amended: a category added, removed, renamed or reordered at any depth
\* makes the handler write the whole payload (mode snapshot), unless the edit
\* removes a reserved root category or moves one a place forward in the root
\* list, which the normalisation of the payload can undo, or swaps two
\* siblings of the same id, title and descendant structure.
C3_FullWriteUnlessUndone ==
  (StructuralEdit /\ ~TouchesReservedRoot /\ ~SwapsLookAlikes) => FullWrite

C3_Witness ==
  /\ StructuralEdit /\ ~TouchesReservedRoot /\ ~SwapsLookAlikes
  /\ last.edit.kind = "reorder" /\ Len(last.edit.path) = 2
  /\ FullWrite

-----------------------------------------------------------------------------
(* C4 *)

\* the payload after the normalisation of its reserved category
NormalisedPayload ==
  IF Has(last.body.data, "categories")
  THEN [last.body.data EXCEPT !.categories = ensureUncategorized(@)]
  ELSE last.body.data

\* C4: whenever the save handler answers success in one of the modes noop,
\* bulk-sites, snapshot, snapshot-meta, the persisted document equals the
\* payload after Uncategorized normalisation, profile included.
C4_SaveFidelity ==
  (SaveServed /\ Succeeded
   /\ ModeOf(last.resp) \in {"noop", "bulk-sites", "snapshot", "snapshot-meta"})
    => snapshot = <<NormalisedPayload>>

-----------------------------------------------------------------------------
(* putFolderNodesBulk on its own: any stored value, any list of updates *)

MaxUpdates == 2

\* the title paths updates are addressed to
SegmentPaths == {<<A>>, <<B>>, <<AB>>, <<A, B>>, <<A, A>>, <<UNC_TITLE>>}

BulkUpdates ==
  {[segments |-> sp, node |-> [sites |-> sl]] : sp \in SegmentPaths, sl \in SiteLists}

RECURSIVE SeqsUpTo(_, _)
SeqsUpTo(S, n) ==
  IF n = 0 THEN {<< >>}
  ELSE LET shorter == SeqsUpTo(S, n - 1)
       IN shorter \cup {Append(q, x) : q \in {r \in shorter : Len(r) = n - 1}, x \in S}

\* stored values: nothing, an imported document, an object without categories
InitBulk ==
  /\ snapshot \in {<< >>, <<[profile |-> P0]>>} \cup {<<d>> : d \in ImportDocs}
  /\ favicons = {}
  /\ last = NoRequest
  /\ nreq = 0
  /\ adminData = << >>
  /\ bundled = navigationData
  /\ kvBound = TRUE
  /\ Idle

\* kvManager.putFolderNodesBulk(updates) on a fresh manager
BulkWrite ==
  /\ nreq = 0
  /\ \E updates \in SeqsUpTo(BulkUpdates, MaxUpdates) :
       LET m == putFolderNodesBulk(NewManager(snapshot), updates)
       IN Served("bulk", updates, << >>,
                 Outcome(m, createSuccessResponse([message |-> "done"]), updates))
  /\ UNCHANGED <<favicons, adminData, bundled, kvBound, inflight, clock, favMeta>>

NextBulk == BulkWrite

SpecBulk == InitBulk /\ [][NextBulk]_vars

-----------------------------------------------------------------------------
(* C5 *)

BulkServed == last.op = "bulk"

\* the position of the category a title path names: at each level the first
\* category of that title; << >> when the path names none
RECURSIVE PositionOfTitles(_, _)
PositionOfTitles(cats, titles) ==
  IF titles = << >> THEN << >>
  ELSE LET h == FindIndex(cats, LAMBDA c : TitleOf(c) = Head(titles))
       IN IF h = 0 THEN << >>
          ELSE IF Len(titles) = 1 THEN <<h>>
          ELSE LET rest == PositionOfTitles(ChildrenOf(cats[h]), Tail(titles))
               IN IF rest = << >> THEN << >> ELSE <<h>> \o rest

\* the tree with the sites of the categories named by the updates replaced,
\* and nothing else changed
RECURSIVE SitesReplaced(_, _)
SitesReplaced(cats, updates) ==
  IF updates = << >> THEN cats
  ELSE LET u == Head(updates)
           pos == PositionOfTitles(cats, u.segments)
       IN SitesReplaced(IF pos = << >> THEN cats
                        ELSE ReplaceAt(cats, pos,
                                       SetField(NodeAt(cats, pos), "sites", u.node.sites)),
                        Tail(updates))

\* C5: putFolderNodesBulk replaces the sites of exactly the categories whose
\* title paths its updates list (titles holding a slash included) and leaves
\* every other site list, every id, title, icon and child list and the
\* profile as they were.
C5_PartialWriteFrame ==
  (BulkServed /\ HadDocument)
    => snapshot = <<[last.before[1] EXCEPT
                       !.categories = SitesReplaced(@, last.body)]>>

-----------------------------------------------------------------------------
(* C6 *)

-----------------------------------------------------------------------------
(* The admin client's category paths. A category node is identified by its *)
(* position in the tree: a resolver answers the position of the node it    *)
(* returns, << >> when it returns null.                                    *)

RECURSIVE findCategoryWithParentByIndex(_, _)
findCategoryWithParentByIndex(cats, indexPath) ==
  IF indexPath = << >> THEN << >>
  ELSE LET idx == Head(indexPath)
       IN IF idx < 1 \/ idx > Len(cats) THEN << >>
          ELSE IF Len(indexPath) = 1 THEN <<idx>>
          ELSE LET rest == findCategoryWithParentByIndex(ChildrenOf(cats[idx]),
                                                         Tail(indexPath))
               IN IF rest = << >> THEN << >> ELSE <<idx>> \o rest

\* the loop of _findIndexPathByTitlePath below the root: children by title
RECURSIVE IndexPathBelow(_, _)
IndexPathBelow(node, titles) ==
  IF titles = << >> THEN << >>
  ELSE IF ~Has(node, "children") THEN <<0>>
  ELSE LET idx == FindIndex(node.children, LAMBDA ch : TitleOf(ch) = Head(titles))
       IN IF idx = 0 THEN <<0>>
          ELSE <<idx>> \o IndexPathBelow(node.children[idx], Tail(titles))

findIndexPathByTitlePath(cats, titles) ==
  IF titles = << >> THEN << >>
  ELSE LET rootIdx == FindIndex(cats, LAMBDA c : TitleOf(c) = Head(titles)
                                                 \/ KeyOf(c) = Head(titles))
       IN IF rootIdx = 0 THEN << >>
          ELSE LET path == <<rootIdx>> \o IndexPathBelow(cats[rootIdx], Tail(titles))
               IN IF \E i \in 1..Len(path) : path[i] = 0 THEN << >> ELSE path

isPathById(cats, arr) ==
  LET rootKey == arr[1]
      inTitles == \E i \in 1..Len(cats) : TitleOf(cats[i]) = rootKey
      inIds == \E i \in 1..Len(cats) : KeyOf(cats[i]) = rootKey
  IN IF inIds /\ ~inTitles THEN TRUE ELSE inIds

\* findChild of _findCategoryNodeByPath, level by level
RECURSIVE NodeByPathFrom(_, _, _)
NodeByPathFrom(children, keys, byId) ==
  LET idx == FindIndex(children,
                       LAMBDA c : (IF byId THEN KeyOf(c) ELSE TitleOf(c)) = Head(keys))
  IN IF idx = 0 THEN <<0>>
     ELSE IF Len(keys) = 1 THEN <<idx>>
     ELSE IF ~Has(children[idx], "children") THEN <<0>>
     ELSE <<idx>> \o NodeByPathFrom(children[idx].children, Tail(keys), byId)

findCategoryNodeByPath(cats, pathTitles) ==
  IF pathTitles = << >> THEN << >>
  ELSE LET path == NodeByPathFrom(cats, pathTitles, isPathById(cats, pathTitles))
       IN IF \E i \in 1..Len(path) : path[i] = 0 THEN << >> ELSE path

pickChild(children, key) ==
  FindIndex(children, LAMBDA c : (IdOrEmpty(c) # EmptyStr /\ c.id = key)
                                 \/ TitleOf(c) = key)

\* the titles _resolveTitlePath pushes; << >> is the null it returns
RECURSIVE TitlesFrom(_, _)
TitlesFrom(children, anyPath) ==
  LET idx == pickChild(children, Head(anyPath))
  IN IF idx = 0 THEN << >>
     ELSE IF Len(anyPath) = 1 THEN <<TitleOf(children[idx])>>
     ELSE IF ~Has(children[idx], "children") THEN << >>
     ELSE LET rest == TitlesFrom(children[idx].children, Tail(anyPath))
          IN IF rest = << >> THEN << >> ELSE <<TitleOf(children[idx])>> \o rest

resolveTitlePath(cats, anyPath) ==
  IF anyPath = << >> THEN << >> ELSE TitlesFrom(cats, anyPath)

\* editSiteByPath: _resolveTitlePath(anyPath) || anyPath, then the node
NodeOfAnyPath(cats, anyPath) ==
  LET resolved == resolveTitlePath(cats, anyPath)
      titlePath == IF resolved = << >> THEN anyPath ELSE resolved
  IN findCategoryNodeByPath(cats, titlePath)

\* the id path of a position: each node's id, its title where it has no id
IdPathOf(cats, path) ==
  [i \in 1..Len(path) |-> KeyOf(NodeAt(cats, SubSeq(path, 1, i)))]

-----------------------------------------------------------------------------
(* The admin client resolving paths in the tree it loaded and edited *)

InitPath ==
  /\ snapshot \in {<<d>> : d \in ImportDocs}
  /\ favicons = {}
  /\ last = NoRequest
  /\ nreq = 0
  /\ adminData = << >>
  /\ bundled = navigationData
  /\ kvBound = TRUE
  /\ Idle

\* loadAdminData: GET /api/admin/data
LoadAdminData ==
  /\ adminData = << >>
  /\ adminData' = snapshot
  /\ UNCHANGED <<snapshot, favicons, last, nreq, bundled, kvBound, inflight, clock, favMeta>>

\* the category dialogs changing the loaded tree: add, rename, delete, reorder
EditLoadedTree ==
  /\ adminData # << >>
  /\ nreq < MaxRequests
  /\ \E e \in {x \in Edits(adminData[1]) : x.kind \in {"add", "rename", "remove", "reorder"}} :
       /\ adminData' = <<ApplyEdit(adminData[1], e)>>
       /\ last' = [NoRequest EXCEPT !.op = "edit", !.edit = e]
  /\ nreq' = nreq + 1
  /\ UNCHANGED <<snapshot, favicons, bundled, kvBound, inflight, clock, favMeta>>

\* a node addressed by index path, by title path and by id path
ResolvePaths ==
  /\ adminData # << >>
  /\ last.op # "resolve"
  /\ \E p \in AllIndexPaths(CatsOf(adminData[1])) :
       LET cats == CatsOf(adminData[1])
       IN last' = [NoRequest EXCEPT
                     !.op = "resolve",
                     !.body = p,
                     !.resp = [byIndex |-> findCategoryWithParentByIndex(cats, p),
                               byTitles |-> findCategoryNodeByPath(cats, TitlePathOf(cats, p)),
                               indexOfTitles |-> findIndexPathByTitlePath(cats, TitlePathOf(cats, p)),
                               byIds |-> NodeOfAnyPath(cats, IdPathOf(cats, p))]]
  /\ UNCHANGED <<snapshot, favicons, nreq, adminData, bundled, kvBound, inflight, clock, favMeta>>

NextPath == LoadAdminData \/ EditLoadedTree \/ ResolvePaths

SpecPath == InitPath /\ [][NextPath]_vars

-----------------------------------------------------------------------------
(* C7 *)

\* C7: for every tree and every category node an index path reaches,
\* resolving the node's title path (_findCategoryNodeByPath,
\* _findIndexPathByTitlePath) and its id path, ids falling back to titles
\* (_resolveTitlePath followed by _findCategoryNodeByPath), returns that
\* same node.
C7_PathEquivalence ==
  last.op = "resolve"
    => /\ last.resp.byIndex = last.body
       /\ last.resp.byTitles = last.body
       /\ last.resp.indexOfTitles = last.body
       /\ last.resp.byIds = last.body

-----------------------------------------------------------------------------
(* src/src/data/navigationData.js and the favicon helpers of the site API *)

GLOBE_ICON == <<"globe">>
FAVICON_API == "/api/favicon/"

\* a manager that also holds the favicon keyspace of the binding
SiteManager(kvSnapshot, kvFavicons) ==
  [kv |-> kvSnapshot, cache |-> << >>, puts |-> << >>, shared |-> FALSE,
   avail |-> kvBound, fav |-> kvFavicons]

\* getNavigationDataWithFallback: an empty store is initialised with the
\* module's navigationData object, which saveNavigationData caches and the
\* second read returns: the caller holds the module's object itself. Without
\* a binding it throws, which val = << >> stands for.
getNavigationDataWithFallback(m) ==
  IF ~isAvailable(m) THEN [m |-> m, val |-> << >>]
  ELSE LET r == getNavigationData(m)
       IN IF r.val # << >> THEN r
          ELSE LET r2 == getNavigationData(saveNavigationData(r.m, bundled))
               IN [m |-> [r2.m EXCEPT !.shared = TRUE],
                   val |-> IF r2.val # << >> THEN r2.val ELSE <<bundled>>]

\* let currentData = await getNavigationData(); if (!currentData) fallback
LoadCurrentData(m) ==
  LET r == getNavigationData(m)
  IN IF r.val # << >> THEN r ELSE getNavigationDataWithFallback(r.m)

\* new URL(url).hostname: << host >>, or << >> where the constructor throws
extractHost(url) ==
  IF Len(url) = 2 /\ url[1] = "https://" THEN <<url[2]>> ELSE << >>

FavKey(host) == CASE host = "h1" -> "fav:h1" [] host = "h2" -> "fav:h2" [] OTHER -> "fav:"

\* putFavicon: an entry the store already holds is not written again
putFavicon(m, host) ==
  IF host \in m.fav THEN m
  ELSE [m EXCEPT !.fav = @ \cup {host}, !.puts = Append(@, FavKey(host))]

\* fetchAndCacheFavicon: fetched holds the hosts whose icon download succeeds
fetchAndCacheFavicon(m, host, fetched) ==
  IF host \in fetched THEN putFavicon(m, host) ELSE m

\* the favicon block of the handlers: the path is /api/favicon/<host> whether
\* or not the download succeeded
BindFavicon(m, site, url, fetched) ==
  LET host == extractHost(url)
  IN IF host = << >> THEN [m |-> m, site |-> site]
     ELSE [m |-> fetchAndCacheFavicon(m, host[1], fetched),
           site |-> SetField(site, "favicon", <<FAVICON_API, host[1]>>)]

\* {...prev, ...body}
Merge(prev, body) == body @@ prev

SiteOutcome(m, resp) ==
  [kv |-> m.kv, resp |-> resp, puts |-> m.puts, bulk |-> << >>, fav |-> m.fav,
   bundle |-> IF m.shared THEN m.cache[1] ELSE bundled]

findSiteIndexByTitle(node, title) ==
  LET t == Trim(title)
  IN IF t = EmptyStr \/ ~Has(node, "sites") THEN 0
     ELSE FindIndex(node.sites, LAMBDA x : Has(x, "title") /\ x.title = t)

findSiteIndexByUrl(node, url) ==
  LET u == Trim(url)
  IN IF u = EmptyStr \/ ~Has(node, "sites") THEN 0
     ELSE FindIndex(node.sites, LAMBDA x : Has(x, "url") /\ x.url = u)

canInsertSite(node, site) ==
  IF ~Has(node, "sites") \/ ~Has(site, "url") \/ site.url = EmptyStr THEN FALSE
  ELSE findSiteIndexByUrl(node, site.url) = 0

NotEmptyField(o, f) == Has(o, f) /\ o[f] # EmptyStr

-----------------------------------------------------------------------------
(* src/unnamed/part_001: the single-site handlers *)

\* POST /api/admin/sites
handleAddSite(kvSnapshot, kvFavicons, body, fetched) ==
  LET m0 == SiteManager(kvSnapshot, kvFavicons)
  IN IF ~(NotEmptyField(body, "categoryId") /\ NotEmptyField(body, "title")
          /\ NotEmptyField(body, "url") /\ NotEmptyField(body, "description"))
     THEN SiteOutcome(m0, createErrorResponse("incomplete", StatusNamed("BAD_REQUEST")))
     ELSE
       LET r == LoadCurrentData(m0)
           currentData == r.val[1]
           categoryIndex == IF Has(currentData, "categories")
                            THEN FindIndex(currentData.categories,
                                           LAMBDA cat : Has(cat, "id") /\ cat.id = body.categoryId)
                            ELSE 0
       IN IF r.val = << >> \/ ~Has(currentData, "categories")
          THEN SiteOutcome(r.m, createErrorResponse("failed", StatusNamed("INTERNAL_SERVER_ERROR")))
          ELSE IF categoryIndex = 0
          THEN SiteOutcome(r.m, createErrorResponse("no category", StatusNamed("NOT_FOUND")))
          ELSE IF ~Has(currentData.categories[categoryIndex], "sites")
          THEN SiteOutcome(r.m, createErrorResponse("failed", StatusNamed("INTERNAL_SERVER_ERROR")))
          ELSE IF \E i \in 1..Len(currentData.categories[categoryIndex].sites) :
                    LET site == currentData.categories[categoryIndex].sites[i]
                    IN site.title = body.title \/ site.url = body.url
          THEN SiteOutcome(r.m, createErrorResponse("exists", StatusNamed("CONFLICT")))
          ELSE
            LET bound == BindFavicon(r.m,
                           [title |-> body.title, description |-> body.description,
                            url |-> body.url,
                            icon |-> IF NotEmptyField(body, "icon") THEN body.icon ELSE GLOBE_ICON],
                           body.url, fetched)
                saved == [currentData EXCEPT
                            !.categories[categoryIndex].sites = Append(@, bound.site)]
            IN SiteOutcome(saveNavigationData(bound.m, saved),
                           createSuccessResponse([message |-> "added", site |-> bound.site]))

\* PUT /api/admin/sites/:categoryId/:siteTitle
handleUpdateSite(kvSnapshot, kvFavicons, categoryId, siteTitle, body, fetched) ==
  LET r == LoadCurrentData(SiteManager(kvSnapshot, kvFavicons))
      currentData == r.val[1]
      categoryIndex == IF Has(currentData, "categories")
                       THEN FindIndex(currentData.categories,
                                      LAMBDA cat : Has(cat, "id") /\ cat.id = categoryId)
                       ELSE 0
      siteIndex == IF categoryIndex # 0 /\ Has(currentData.categories[categoryIndex], "sites")
                   THEN FindIndex(currentData.categories[categoryIndex].sites,
                                  LAMBDA site : site.title = siteTitle)
                   ELSE 0
  IN IF r.val = << >> \/ ~Has(currentData, "categories")
     THEN SiteOutcome(r.m, createErrorResponse("failed", StatusNamed("INTERNAL_SERVER_ERROR")))
     ELSE IF categoryIndex = 0
     THEN SiteOutcome(r.m, createErrorResponse("no category", StatusNamed("NOT_FOUND")))
     ELSE IF ~Has(currentData.categories[categoryIndex], "sites")
     THEN SiteOutcome(r.m, createErrorResponse("failed", StatusNamed("INTERNAL_SERVER_ERROR")))
     ELSE IF siteIndex = 0
     THEN SiteOutcome(r.m, createErrorResponse("no site", StatusNamed("NOT_FOUND")))
     ELSE
       LET prev == currentData.categories[categoryIndex].sites[siteIndex]
           merged == Merge(prev, body)
           bound == BindFavicon(r.m, merged,
                                IF NotEmptyField(merged, "url") THEN merged.url ELSE prev.url,
                                fetched)
           saved == [currentData EXCEPT
                       !.categories[categoryIndex].sites[siteIndex] = bound.site]
       IN SiteOutcome(saveNavigationData(bound.m, saved),
                      createSuccessResponse([message |-> "updated", site |-> bound.site]))

\* PATCH /api/admin/sites/:categoryId/:siteTitle
handleMoveSite(kvSnapshot, kvFavicons, categoryId, siteTitle, body) ==
  LET m0 == SiteManager(kvSnapshot, kvFavicons)
  IN IF ~NotEmptyField(body, "targetCategoryId")
     THEN SiteOutcome(m0, createErrorResponse("incomplete", StatusNamed("BAD_REQUEST")))
     ELSE
       LET r == LoadCurrentData(m0)
           currentData == r.val[1]
           cats == CatsOf(currentData)
           sourceCategoryIndex == FindIndex(cats, LAMBDA cat : Has(cat, "id") /\ cat.id = categoryId)
           targetCategoryIndex ==
             FindIndex(cats, LAMBDA cat : Has(cat, "id") /\ cat.id = body.targetCategoryId)
           siteIndex == IF sourceCategoryIndex # 0 /\ Has(cats[sourceCategoryIndex], "sites")
                        THEN FindIndex(cats[sourceCategoryIndex].sites,
                                       LAMBDA site : site.title = siteTitle)
                        ELSE 0
       IN IF r.val = << >> \/ ~Has(currentData, "categories")
          THEN SiteOutcome(r.m, createErrorResponse("failed", StatusNamed("INTERNAL_SERVER_ERROR")))
          ELSE IF sourceCategoryIndex = 0
          THEN SiteOutcome(r.m, createErrorResponse("no source", StatusNamed("NOT_FOUND")))
          ELSE IF targetCategoryIndex = 0
          THEN SiteOutcome(r.m, createErrorResponse("no target", StatusNamed("NOT_FOUND")))
          ELSE IF ~Has(cats[sourceCategoryIndex], "sites")
          THEN SiteOutcome(r.m, createErrorResponse("failed", StatusNamed("INTERNAL_SERVER_ERROR")))
          ELSE IF siteIndex = 0
          THEN SiteOutcome(r.m, createErrorResponse("no site", StatusNamed("NOT_FOUND")))
          ELSE IF ~Has(cats[targetCategoryIndex], "sites")
          THEN SiteOutcome(r.m, createErrorResponse("failed", StatusNamed("INTERNAL_SERVER_ERROR")))
          ELSE
            LET siteToMove == cats[sourceCategoryIndex].sites[siteIndex]
                spliced == [cats EXCEPT ![sourceCategoryIndex].sites = RemoveAt(@, siteIndex)]
                pushed == [spliced EXCEPT ![targetCategoryIndex].sites = Append(@, siteToMove)]
            IN SiteOutcome(saveNavigationData(r.m, [currentData EXCEPT !.categories = pushed]),
                           createSuccessResponse([message |-> "moved", site |-> siteToMove]))

-----------------------------------------------------------------------------
(* src/src/utils/kvStorage.js: getFolderNode *)

\* findNode inside getFolderNode: the position of the node it returns,
\* << >> for null
RECURSIVE findNode(_, _, _)
findNode(cats, segments, idx) ==
  IF idx > Len(segments) THEN << >>
  ELSE LET h == FindIndex(cats, LAMBDA c : TitleOf(c) = segments[idx])
       IN IF h = 0 THEN << >>
          ELSE IF idx = Len(segments) THEN <<h>>
          ELSE LET rest == findNode(ChildrenOf(cats[h]), segments, idx + 1)
               IN IF rest = << >> THEN << >> ELSE <<h>> \o rest

\* getFolderNode(segments): the manager afterwards, the object returned, and
\* ref, the position of the cached category whose sites array the returned
\* object shares (<< >> when it holds an array of its own)
getFolderNode(m, segments) ==
  LET r == getNavigationData(m)
      placeholder == [title |-> IF segments = << >> THEN <<"__root__">>
                                ELSE segments[Len(segments)],
                      sites |-> << >>, children |-> << >>]
  IN IF r.val # << >> /\ Has(r.val[1], "categories")
     THEN IF segments = << >>
          THEN [m |-> r.m, ref |-> << >>,
                node |-> [title |-> <<"__root__">>, sites |-> << >>,
                          children |-> r.val[1].categories]]
          ELSE LET pos == findNode(r.val[1].categories, segments, 1)
               IN IF pos = << >> THEN [m |-> r.m, node |-> placeholder, ref |-> << >>]
                  ELSE LET target == NodeAt(r.val[1].categories, pos)
                       IN [m |-> r.m,
                           node |-> [title |-> TitleOf(target), sites |-> SitesOf(target),
                                     children |-> ChildrenOf(target)],
                           ref |-> IF Has(target, "sites") THEN pos ELSE << >>]
     ELSE [m |-> r.m, node |-> placeholder, ref |-> << >>]

-----------------------------------------------------------------------------
(* src/unnamed/part_001: the batch handlers. The state of a request is st: *)
(* the manager, pendingMap (in insertion order), and the counters. Each    *)
(* step is applied to the value of the state before it, which             *)
(* CHOOSE r \in {Step(st) : st \in {before}} : TRUE  computes once.         *)

\* normalizeSegments for a payload whose path is an array
normalizeSegments(payload) ==
  IF Has(payload, "path") THEN FilterNonEmpty(MapTrim(payload.path)) ELSE << >>

BatchStart(kvSnapshot, kvFavicons) ==
  [m |-> SiteManager(kvSnapshot, kvFavicons), pending |-> << >>,
   added |-> 0, updated |-> 0, moved |-> 0, movedSites |-> << >>]

RecordIndex(st, key) == FindIndex(st.pending, LAMBDA rec : rec.key = key)

\* pendingMap.get(key), or getFolderNode and pendingMap.set
ensureRecord(st, segments) ==
  IF RecordIndex(st, pathKey(segments)) # 0 THEN st
  ELSE LET got == getFolderNode(st.m, segments)
       IN [st EXCEPT !.m = got.m,
                     !.pending = Append(@, [key |-> pathKey(segments), segments |-> segments,
                                            node |-> got.node, ref |-> got.ref])]

\* an element written into node.sites: the array is the cached category's
\* own array while ref names one
WriteSites(st, i, newSites) ==
  LET ref == st.pending[i].ref
      cached == st.m.cache[1]
  IN [st EXCEPT
        !.pending[i].node.sites = newSites,
        !.m.cache = IF ref = << >> THEN @
                    ELSE <<[cached EXCEPT
                              !.categories =
                                ReplaceAt(@, ref, SetField(NodeAt(@, ref), "sites", newSites))]>>]

\* node.sites = <a new array>: the cached category keeps its own
AssignSites(st, i, newSites) ==
  [st EXCEPT !.pending[i].node.sites = newSites, !.pending[i].ref = << >>]

PendingUpdates(st) ==
  [i \in 1..Len(st.pending) |-> [segments |-> st.pending[i].segments,
                                 node |-> st.pending[i].node]]

FlushPending(st) ==
  IF st.pending # << >> THEN putFolderNodesBulk(st.m, PendingUpdates(st)) ELSE st.m

\* one item of mode 'add'
AddItem(st0, it, fetched) ==
  LET segments == normalizeSegments(it)
      key == pathKey(segments)
      Push(st) ==
        LET i == RecordIndex(st, key)
            node == st.pending[i].node
        IN IF ~Has(it, "site") \/ ~NotEmptyField(it.site, "title")
              \/ ~NotEmptyField(it.site, "url")
           THEN st
           ELSE IF ~canInsertSite(node, it.site) THEN st
           ELSE LET bound ==
                      BindFavicon(st.m,
                        [title |-> it.site.title,
                         description |-> IF NotEmptyField(it.site, "description")
                                         THEN it.site.description ELSE EmptyStr,
                         url |-> it.site.url,
                         icon |-> IF NotEmptyField(it.site, "icon")
                                  THEN it.site.icon ELSE GLOBE_ICON],
                        it.site.url, fetched)
                IN [WriteSites([st EXCEPT !.m = bound.m], i, Append(node.sites, bound.site))
                      EXCEPT !.added = @ + 1]
  IN IF key = EmptyStr THEN st0
     ELSE CHOOSE r \in {Push(st) : st \in {ensureRecord(st0, segments)}} : TRUE

\* one item of mode 'update'
UpdateItem(st0, it, fetched) ==
  LET segments == normalizeSegments(it)
      key == pathKey(segments)
      Put(st) ==
        LET i == RecordIndex(st, key)
            node == st.pending[i].node
            idx == findSiteIndexByTitle(node, IF Has(it, "title") THEN it.title ELSE EmptyStr)
        IN IF idx = 0 THEN st
           ELSE LET prev == node.sites[idx]
                    merged == Merge(prev, IF Has(it, "update") THEN it.update ELSE << >>)
                    bound == BindFavicon(st.m, merged,
                               IF NotEmptyField(merged, "url") THEN merged.url ELSE prev.url,
                               fetched)
                IN [WriteSites([st EXCEPT !.m = bound.m], i,
                               [node.sites EXCEPT ![idx] = bound.site])
                      EXCEPT !.updated = @ + 1]
  IN IF key = EmptyStr THEN st0
     ELSE CHOOSE r \in {Put(st) : st \in {ensureRecord(st0, segments)}} : TRUE

RECURSIVE BatchLoop(_, _, _, _)
BatchLoop(st, items, mode, fetched) ==
  IF items = << >> THEN st
  ELSE CHOOSE r \in {BatchLoop(next, Tail(items), mode, fetched) :
                       next \in {IF mode = "add" THEN AddItem(st, Head(items), fetched)
                                 ELSE IF mode = "update" THEN UpdateItem(st, Head(items), fetched)
                                 ELSE st}} : TRUE

\* PUT /api/admin/sites
handleBatchAddSites(kvSnapshot, kvFavicons, body, fetched) ==
  LET mode == IF Has(body, "mode") THEN body.mode ELSE "add"
      items == IF Has(body, "items") THEN body.items ELSE << >>
      st0 == BatchStart(kvSnapshot, kvFavicons)
  IN IF items = << >>
     THEN SiteOutcome(st0.m, createErrorResponse("no items", StatusNamed("BAD_REQUEST")))
     ELSE LET Answer(st) ==
                [SiteOutcome(FlushPending(st),
                             createSuccessResponse([message |-> "done", mode |-> mode,
                                                    added |-> st.added, updated |-> st.updated]))
                   EXCEPT !.bulk = PendingUpdates(st)]
          IN CHOOSE r \in {Answer(st) : st \in {BatchLoop(st0, items, mode, fetched)}} : TRUE

\* the first loop of handleBatchMoveSites: remove from the sources, collect
RECURSIVE CollectMoved(_, _)
CollectMoved(st0, items) ==
  IF items = << >> THEN st0
  ELSE LET it == Head(items)
           titles == IF Has(it, "titles") THEN it.titles ELSE << >>
       IN IF titles = << >> THEN CollectMoved(st0, Tail(items))
          ELSE LET segments == normalizeSegments(it)
                   Take(st) ==
                     LET i == RecordIndex(st, pathKey(segments))
                         node == st.pending[i].node
                         titleSet == {t \in {Trim(titles[k]) : k \in 1..Len(titles)} :
                                        t # EmptyStr}
                         hit(x) == Has(x, "title") /\ x.title \in titleSet
                         taken == SelectSeq(node.sites, hit)
                         remain == SelectSeq(node.sites, LAMBDA x : ~hit(x))
                     IN [AssignSites(st, i, remain) EXCEPT
                           !.movedSites = @ \o taken,
                           !.moved = @ + (Len(node.sites) - Len(remain))]
               IN CHOOSE r \in {CollectMoved(next, Tail(items)) :
                                  next \in {Take(st) : st \in {ensureRecord(st0, segments)}}}
                    : TRUE

\* the second loop: push into the target what it can take
RECURSIVE InsertMoved(_, _, _)
InsertMoved(st, i, movedSites) ==
  IF movedSites = << >> THEN st
  ELSE CHOOSE r \in {InsertMoved(next, i, Tail(movedSites)) :
                       next \in {IF canInsertSite(st.pending[i].node, Head(movedSites))
                                 THEN WriteSites(st, i, Append(st.pending[i].node.sites,
                                                               Head(movedSites)))
                                 ELSE st}} : TRUE

\* PATCH /api/admin/sites
handleBatchMoveSites(kvSnapshot, kvFavicons, body) ==
  LET items == IF Has(body, "items") THEN body.items ELSE << >>
      targetSegments == IF Has(body, "target") THEN normalizeSegments([path |-> body.target])
                        ELSE << >>
      st0 == BatchStart(kvSnapshot, kvFavicons)
  IN IF items = << >> \/ targetSegments = << >>
     THEN SiteOutcome(st0.m, createErrorResponse("incomplete", StatusNamed("BAD_REQUEST")))
     ELSE LET Insert(collected) ==
                InsertMoved(collected, RecordIndex(collected, pathKey(targetSegments)),
                            collected.movedSites)
              Answer(st) ==
                [SiteOutcome(FlushPending(st),
                             createSuccessResponse([message |-> "moved", moved |-> st.moved]))
                   EXCEPT !.bulk = PendingUpdates(st)]
          IN CHOOSE r \in
               {Answer(st) :
                  st \in {Insert(collected) :
                            collected \in {ensureRecord(target, targetSegments) :
                                             target \in {CollectMoved(st0, items)}}}} : TRUE

-----------------------------------------------------------------------------
(* The site API serving requests *)

MaxItems == 2

CategoryIds == {A, B, UNC_ID}
SiteTitles == {<<"s">>, <<"t">>}
Urls == {U1, U2}
Hosts == {"h1", "h2"}

\* the outcomes of the icon downloads a request makes: the hosts, among those
\* of the urls it carries, whose download succeeds
RECURSIVE HostsOf(_)
HostsOf(urls) ==
  IF urls = << >> THEN {}
  ELSE {extractHost(Head(urls))[i] : i \in 1..Len(extractHost(Head(urls)))}
       \cup HostsOf(Tail(urls))

FetchOutcomes(urls) == SUBSET HostsOf(urls)

AddSiteBodies ==
  {[categoryId |-> c, title |-> t, url |-> u, description |-> <<"d">>] :
     c \in {A, UNC_ID}, t \in SiteTitles, u \in Urls}

SiteUpdates == {[url |-> U1], [url |-> U2], [description |-> <<"e">>]}

BatchAddItems ==
  {[path |-> <<A>>, site |-> [title |-> <<"s">>, url |-> U1]],
   [path |-> <<A, B>>, site |-> [title |-> <<"s">>, url |-> U1]],
   [path |-> <<AB>>, site |-> [title |-> <<"t">>, url |-> U2]]}

BatchUpdateItems ==
  {[path |-> <<A>>, title |-> <<"s">>, update |-> [url |-> U2]],
   [path |-> <<A, B>>, title |-> <<"t">>, update |-> [url |-> U1]]}

BatchMoveItems ==
  {[path |-> <<A>>, titles |-> << <<"s">>, <<"t">> >>],
   [path |-> <<A, B>>, titles |-> << <<"s">> >>]}

MoveTargets == {<<A>>, <<A, B>>, <<UNC_TITLE>>, <<B>>}

RECURSIVE UniqueUrls(_)
UniqueUrls(cats) ==
  \A i \in 1..Len(cats) :
    /\ \A j, k \in 1..Len(SitesOf(cats[i])) :
         j # k => SitesOf(cats[i])[j].url # SitesOf(cats[i])[k].url
    /\ UniqueUrls(ChildrenOf(cats[i]))

\* the store is empty or holds an imported document, no category of which
\* lists a url twice
InitSites ==
  /\ snapshot \in {<< >>} \cup {<<d>> : d \in {x \in ImportDocs : UniqueUrls(CatsOf(x))}}
  /\ favicons = {}
  /\ last = NoRequest
  /\ nreq = 0
  /\ adminData = << >>
  /\ bundled = navigationData
  /\ kvBound = TRUE
  /\ Idle

ServedSite(op, body, out) ==
  /\ snapshot' = out.kv
  /\ favicons' = out.fav
  /\ last' = [op |-> op, body |-> body, edit |-> << >>, before |-> snapshot,
              resp |-> out.resp, puts |-> out.puts, bulk |-> out.bulk, mem |-> bundled]
  /\ nreq' = nreq + 1
  /\ bundled' = out.bundle
  /\ UNCHANGED <<adminData, kvBound, inflight, clock, favMeta>>

AddSite ==
  /\ nreq < MaxRequests
  /\ \E body \in AddSiteBodies :
       \E fetched \in FetchOutcomes(<<body.url>>) :
         ServedSite("addSite", body, handleAddSite(snapshot, favicons, body, fetched))

UpdateSite ==
  /\ nreq < MaxRequests
  /\ \E c \in {A, UNC_ID}, t \in SiteTitles, body \in SiteUpdates :
       \E fetched \in {{}, Hosts} :
       ServedSite("updateSite", [categoryId |-> c, siteTitle |-> t, update |-> body],
                  handleUpdateSite(snapshot, favicons, c, t, body, fetched))

MoveSite ==
  /\ nreq < MaxRequests
  /\ \E c \in {A, B}, t \in SiteTitles, target \in CategoryIds :
       ServedSite("moveSite", [categoryId |-> c, siteTitle |-> t, targetCategoryId |-> target],
                  handleMoveSite(snapshot, favicons, c, t, [targetCategoryId |-> target]))

BatchAddSites ==
  /\ nreq < MaxRequests
  /\ \E items \in SeqsUpTo(BatchAddItems, MaxItems) \ {<< >>} :
       \E fetched \in FetchOutcomes([i \in 1..Len(items) |-> items[i].site.url]) :
       LET body == [mode |-> "add", items |-> items]
       IN ServedSite("batchAdd", body, handleBatchAddSites(snapshot, favicons, body, fetched))

BatchUpdateSites ==
  /\ nreq < MaxRequests
  /\ \E items \in SeqsUpTo(BatchUpdateItems, MaxItems) \ {<< >>} :
       \E fetched \in FetchOutcomes([i \in 1..Len(items) |-> items[i].update.url]) :
       LET body == [mode |-> "update", items |-> items]
       IN ServedSite("batchUpdate", body, handleBatchAddSites(snapshot, favicons, body, fetched))

BatchMoveSites ==
  /\ nreq < MaxRequests
  /\ \E items \in SeqsUpTo(BatchMoveItems, MaxItems) \ {<< >>}, target \in MoveTargets :
       LET body == [items |-> items, target |-> target]
       IN ServedSite("batchMove", body, handleBatchMoveSites(snapshot, favicons, body))

NextSites ==
  \/ AddSite
  \/ UpdateSite
  \/ MoveSite
  \/ BatchAddSites
  \/ BatchUpdateSites
  \/ BatchMoveSites

SpecSites == InitSites /\ [][NextSites]_vars

-----------------------------------------------------------------------------
(* C8 *)

AfterCats == CatsOf(snapshot[1])

\* the root category handleAddSite adds to: the first one with the id
RootWithId(cats, id) == FindIndex(cats, LAMBDA cat : Has(cat, "id") /\ cat.id = id)

HasUrl(node, url) == \E i \in 1..Len(SitesOf(node)) : SitesOf(node)[i].url = url

\* POST /api/admin/sites for a url the target category already lists
AddOfListedUrl ==
  /\ last.op = "addSite" /\ HadDocument
  /\ RootWithId(BeforeCats, last.body.categoryId) # 0
  /\ HasUrl(BeforeCats[RootWithId(BeforeCats, last.body.categoryId)], last.body.url)

\* the items of a batch add whose url their target category already lists
ItemsOfListedUrl ==
  {k \in 1..Len(last.body.items) :
     LET it == last.body.items[k]
         pos == PositionOfTitles(BeforeCats, it.path)
     IN pos # << >> /\ HasUrl(NodeAt(BeforeCats, pos), it.site.url)}

BatchAddOfListedUrl ==
  /\ last.op = "batchAdd" /\ HadDocument
  /\ ItemsOfListedUrl # {}

\* answered with the conflict status of HTTP
RejectedAsConflict == ~last.resp.success /\ last.resp.status = 409

\* C8: adding a site (handleAddSite, or an item of handleBatchAddSites in
\* mode 'add') whose url already exists among the target category's direct
\* sites is rejected with a conflict error and leaves that category's sites
\* unchanged.
C8_DuplicateUrlRejected ==
  /\ AddOfListedUrl
       => /\ RejectedAsConflict
          /\ snapshot = last.before
  /\ BatchAddOfListedUrl
       => /\ RejectedAsConflict
          /\ \A k \in ItemsOfListedUrl :
               LET pos == PositionOfTitles(BeforeCats, last.body.items[k].path)
               IN SitesOf(NodeAt(AfterCats, pos)) = SitesOf(NodeAt(BeforeCats, pos))

-----------------------------------------------------------------------------
(* C9 *)

\* C9: starting from a tree in which no category's direct sites list holds
\* two entries with the same url, that stays true in every persisted state
\* reached by any sequence of add-site, update-site and move-site
\* operations (single and batch handlers).
C9_UniqueUrlsPerCategory ==
  (snapshot # << >> /\ Has(snapshot[1], "categories")) => UniqueUrls(AfterCats)

-----------------------------------------------------------------------------
(* C10 *)

\* the sites a successful move names, and where they are to arrive
MovedBySingle == {last.resp.data.site}

DestinationOfSingle == <<RootWithId(AfterCats, last.body.targetCategoryId)>>

MovedByBatch ==
  UNION {LET it == last.body.items[k]
             pos == PositionOfTitles(BeforeCats, it.path)
             sites == IF pos = << >> THEN << >> ELSE SitesOf(NodeAt(BeforeCats, pos))
         IN {sites[i] : i \in {j \in 1..Len(sites) :
                                 \E n \in 1..Len(it.titles) : sites[j].title = it.titles[n]}}
         : k \in 1..Len(last.body.items)}

DestinationOfBatch == PositionOfTitles(AfterCats, last.body.target)

ArrivedAt(pos, moved) ==
  \A x \in moved :
    /\ pos # << >>
    /\ \E i \in 1..Len(SitesOf(NodeAt(AfterCats, pos))) : SitesOf(NodeAt(AfterCats, pos))[i] = x

\* C10: a move (handleMoveSite, handleBatchMoveSites) that answers success
\* removes each moved site from its source and inserts it, all its fields
\* unchanged, into the destination: afterwards every moved site is present
\* in the persisted destination and the tree holds as many sites as before.
C10_MoveConservesSites ==
  /\ (last.op = "moveSite" /\ Succeeded /\ HadDocument)
       => /\ ArrivedAt(DestinationOfSingle, MovedBySingle)
          /\ CountSites(AfterCats) = CountSites(BeforeCats)
  /\ (last.op = "batchMove" /\ Succeeded /\ HadDocument)
       => /\ ArrivedAt(DestinationOfBatch, MovedByBatch)
          /\ CountSites(AfterCats) = CountSites(BeforeCats)

-----------------------------------------------------------------------------
(* src/src/handlers/adminHandler.js: reading the document, and the         *)
(* category handlers. Each of them works on  getNavigationData() ||        *)
(* navigationData : with an empty store, or without a binding, the object  *)
(* it changes in place is the module's navigationData.                     *)

CategoryOutcome(m, resp, bundle) ==
  [kv |-> m.kv, resp |-> resp, puts |-> m.puts, bulk |-> << >>, bundle |-> bundle]

\* GET /api/admin/data (storageInfo is left out of the response)
handleGetAdminData(kvSnapshot) ==
  LET m0 == NewManager(kvSnapshot)
  IN IF ~isAvailable(m0)
     THEN CategoryOutcome(m0, createErrorResponse("kv unavailable",
                                                  StatusNamed("SERVICE_UNAVAILABLE")), bundled)
     ELSE LET r == getNavigationData(m0)
              r2 == IF r.val # << >> THEN r
                    ELSE getNavigationData(saveNavigationData(r.m, bundled))
          IN CategoryOutcome(r2.m,
                             createSuccessResponse([data |-> r2.val[1], dataSource |-> "kv"]),
                             bundled)

\* POST /api/admin/categories
handleAddCategory(kvSnapshot, body) ==
  LET m0 == NewManager(kvSnapshot)
  IN IF ~(NotEmptyField(body, "id") /\ NotEmptyField(body, "title")
          /\ NotEmptyField(body, "icon"))
     THEN CategoryOutcome(m0, createErrorResponse("incomplete", StatusNamed("BAD_REQUEST")),
                          bundled)
     ELSE
       LET r == getNavigationData(m0)
           own == r.val = << >>
           currentData == IF own THEN bundled ELSE r.val[1]
           cats == currentData.categories
           newCategory == [id |-> body.id, title |-> body.title, icon |-> body.icon,
                           sites |-> IF Has(body, "sites") THEN body.sites ELSE << >>]
           uncIndex == FindIndex(cats, IsUncategorized)
           inserted == [currentData EXCEPT
                          !.categories = IF uncIndex >= 1 THEN InsertAt(cats, uncIndex, newCategory)
                                         ELSE Append(cats, newCategory)]
       IN IF FindIndex(cats, LAMBDA cat : Has(cat, "id") /\ cat.id = body.id) # 0
          THEN CategoryOutcome(r.m, createErrorResponse("id exists", StatusNamed("CONFLICT")),
                               bundled)
          ELSE CategoryOutcome(saveNavigationData(r.m, inserted),
                               createSuccessResponse([message |-> "added",
                                                      category |-> newCategory]),
                               IF own THEN inserted ELSE bundled)

\* PUT /api/admin/categories/:id
handleUpdateCategory(kvSnapshot, categoryId, body) ==
  LET r == getNavigationData(NewManager(kvSnapshot))
      own == r.val = << >>
      currentData == IF own THEN bundled ELSE r.val[1]
      cats == currentData.categories
      categoryIndex == FindIndex(cats, LAMBDA cat : Has(cat, "id") /\ cat.id = categoryId)
  IN IF categoryIndex = 0
     THEN CategoryOutcome(r.m, createErrorResponse("no category", StatusNamed("NOT_FOUND")),
                          bundled)
     ELSE
       LET prevCategory == cats[categoryIndex]
           updatedCategory == SetField(Merge(prevCategory, body), "id", categoryId)
           sameTitle == TitleOf(prevCategory) = TitleOf(updatedCategory)
           sameIcon == IconOrEmpty(prevCategory) = IconOrEmpty(updatedCategory)
           sameSites == SitesOf(prevCategory) = SitesOf(updatedCategory)
           answer == createSuccessResponse([message |-> "updated",
                                            category |-> updatedCategory])
           updates == <<[segments |-> <<TitleOf(updatedCategory)>>,
                         node |-> [sites |-> SitesOf(updatedCategory)]]>>
           replaced == [currentData EXCEPT !.categories[categoryIndex] = updatedCategory]
       IN IF sameTitle /\ sameIcon /\ ~sameSites
          THEN [CategoryOutcome(putFolderNodesBulk(r.m, updates), answer, bundled)
                  EXCEPT !.bulk = updates]
          ELSE CategoryOutcome(saveNavigationData(r.m, replaced), answer,
                               IF own THEN replaced ELSE bundled)

\* handleDeleteCategory promoting the children of the deleted category
handleDeleteCategory_KeepChildren(kvSnapshot, categoryId) ==
  LET r == getNavigationData(NewManager(kvSnapshot))
      own == r.val = << >>
      currentData == IF own THEN bundled ELSE r.val[1]
      cats == currentData.categories
      categoryIndex == FindIndex(cats, LAMBDA cat : Has(cat, "id") /\ cat.id = categoryId)
  IN IF categoryIndex = 0
     THEN CategoryOutcome(r.m, createErrorResponse("no category", StatusNamed("NOT_FOUND")),
                          bundled)
     ELSE
       LET spliced == [currentData EXCEPT
                         !.categories = SubSeq(cats, 1, categoryIndex - 1)
                                        \o ChildrenOf(cats[categoryIndex])
                                        \o SubSeq(cats, categoryIndex + 1, Len(cats))]
       IN CategoryOutcome(saveNavigationData(r.m, spliced),
                          createSuccessResponse([message |-> "deleted",
                                                 category |-> cats[categoryIndex]]),
                          IF own THEN spliced ELSE bundled)

\* DELETE /api/admin/categories/:id
handleDeleteCategory(kvSnapshot, categoryId) ==
  LET r == getNavigationData(NewManager(kvSnapshot))
      own == r.val = << >>
      currentData == IF own THEN bundled ELSE r.val[1]
      cats == currentData.categories
      categoryIndex == FindIndex(cats, LAMBDA cat : Has(cat, "id") /\ cat.id = categoryId)
  IN IF categoryIndex = 0
     THEN CategoryOutcome(r.m, createErrorResponse("no category", StatusNamed("NOT_FOUND")),
                          bundled)
     ELSE
       LET spliced == [currentData EXCEPT !.categories = RemoveAt(cats, categoryIndex)]
       IN CategoryOutcome(saveNavigationData(r.m, spliced),
                          createSuccessResponse([message |-> "deleted",
                                                 category |-> cats[categoryIndex]]),
                          IF own THEN spliced ELSE bundled)

-----------------------------------------------------------------------------
(* The category API and the admin client's category deletion *)

NEW_ID == <<"c">>

AddCategoryBodies ==
  {[id |-> NEW_ID, title |-> NEW_ID, icon |-> ICON1],
   [id |-> A, title |-> A, icon |-> ICON1, sites |-> <<S2>>],
   [id |-> B, title |-> B]}

UpdateCategoryBodies ==
  {[title |-> AB], [icon |-> ICON2], [sites |-> <<S2>>],
   [sites |-> << >>, children |-> << >>]}

\* the store is empty or holds an imported document
InitCategories ==
  /\ snapshot \in {<< >>} \cup {<<d>> : d \in ImportDocs}
  /\ favicons = {}
  /\ last = NoRequest
  /\ nreq = 0
  /\ adminData = << >>
  /\ bundled = navigationData
  /\ kvBound = TRUE
  /\ Idle

ServedAdmin(op, body, edit, out) ==
  /\ snapshot' = out.kv
  /\ bundled' = out.bundle
  /\ last' = [op |-> op, body |-> body, edit |-> edit, before |-> snapshot,
              resp |-> out.resp, puts |-> out.puts, bulk |-> out.bulk, mem |-> bundled]
  /\ nreq' = nreq + 1

\* loadAdminData: GET /api/admin/data; a failed request leaves the loaded
\* document as it is
GetAdminData ==
  /\ nreq < MaxRequests
  /\ LET out == handleGetAdminData(snapshot)
     IN /\ ServedAdmin("getAdminData", << >>, << >>, out)
        /\ adminData' = IF out.resp.success THEN <<out.resp.data.data>> ELSE adminData
  /\ UNCHANGED <<favicons, kvBound, inflight, clock, favMeta>>

AddCategory ==
  /\ nreq < MaxRequests
  /\ \E body \in AddCategoryBodies :
       ServedAdmin("addCategory", body, << >>, handleAddCategory(snapshot, body))
  /\ UNCHANGED <<favicons, adminData, kvBound, inflight, clock, favMeta>>

UpdateCategory ==
  /\ nreq < MaxRequests
  /\ \E id \in CategoryIds, body \in UpdateCategoryBodies :
       ServedAdmin("updateCategory", [categoryId |-> id, update |-> body], << >>,
                   handleUpdateCategory(snapshot, id, body))
  /\ UNCHANGED <<favicons, adminData, kvBound, inflight, clock, favMeta>>

DeleteCategory ==
  /\ nreq < MaxRequests
  /\ \E id \in CategoryIds :
       ServedAdmin("deleteCategory", [categoryId |-> id], << >>,
                   handleDeleteCategory(snapshot, id))
  /\ UNCHANGED <<favicons, adminData, kvBound, inflight, clock, favMeta>>

\* deleteCategoryByIndex confirmed: the node is spliced out of the loaded
\* tree, the tree is posted whole, and on success the document is loaded
\* again
DeleteCategoryByIndex ==
  /\ nreq < MaxRequests
  /\ adminData # << >>
  /\ \E p \in AllIndexPaths(CatsOf(adminData[1])) :
       LET found == findCategoryWithParentByIndex(CatsOf(adminData[1]), p)
           e == [kind |-> "remove", path |-> found, arg |-> << >>]
           spliced == ApplyEdit(adminData[1], e)
           out == handleSaveAdminData(snapshot, [data |-> spliced])
           reload == handleGetAdminData(out.kv)
       IN /\ found # << >>
          /\ ServedAdmin("deleteCategoryByIndex", [data |-> spliced],
                         [e EXCEPT !.arg = adminData[1]], out)
          /\ adminData' = IF out.resp.success /\ reload.resp.success
                          THEN <<reload.resp.data.data>>
                          ELSE <<spliced>>
  /\ UNCHANGED <<favicons, kvBound, inflight, clock, favMeta>>

NextCategories ==
  \/ GetAdminData
  \/ AddCategory
  \/ UpdateCategory
  \/ DeleteCategory
  \/ DeleteCategoryByIndex

SpecCategories == InitCategories /\ [][NextCategories]_vars

-----------------------------------------------------------------------------
(* C11 *)

DeleteByHandler == last.op = "deleteCategory" /\ Succeeded

DeleteByClient == last.op = "deleteCategoryByIndex" /\ Succeeded

\* the tree the deletion worked on: the persisted one (the module's where
\* the store held none) for the handler, the loaded one for the client
TreeBeforeDelete ==
  IF last.op = "deleteCategoryByIndex" THEN CatsOf(last.edit.arg)
  ELSE IF HadDocument THEN BeforeCats ELSE CatsOf(last.mem)

DeletedPath ==
  IF last.op = "deleteCategoryByIndex" THEN last.edit.path
  ELSE <<FindIndex(TreeBeforeDelete,
                   LAMBDA cat : Has(cat, "id") /\ cat.id = last.body.categoryId)>>

DeletedNode == NodeAt(TreeBeforeDelete, DeletedPath)

TreeWithoutDeleted ==
  ReplaceSiblingsAt(TreeBeforeDelete, DeletedPath,
                    RemoveAt(SiblingsAt(TreeBeforeDelete, DeletedPath),
                             DeletedPath[Len(DeletedPath)]))

\* the children of the former parent in the persisted tree
FormerSiblings ==
  IF Len(DeletedPath) = 1 THEN AfterCats
  ELSE LET pp == SubSeq(DeletedPath, 1, Len(DeletedPath) - 1)
       IN IF pp \in AllIndexPaths(AfterCats) THEN ChildrenOf(NodeAt(AfterCats, pp)) ELSE << >>

LooksLike(c, n) ==
  \/ (Has(c, "id") /\ Has(n, "id") /\ c.id = n.id)
  \/ (Has(c, "title") /\ Has(n, "title") /\ c.title = n.title)

DeleteCascaded ==
  /\ snapshot # << >>
  /\ AfterCats = TreeWithoutDeleted
  /\ Len(SnapshotPuts) = 1
  /\ CountSites(AfterCats) = CountSites(TreeBeforeDelete) - CountSites(<<DeletedNode>>)
  /\ CountNodes(AfterCats) = CountNodes(TreeBeforeDelete) - CountNodes(<<DeletedNode>>)
  /\ \A i \in 1..Len(FormerSiblings) : ~LooksLike(FormerSiblings[i], DeletedNode)

\* no other child of the parent carries the node's id or its title
NoLookAlikeSibling ==
  LET sibs == SiblingsAt(TreeBeforeDelete, DeletedPath)
  IN \A i \in 1..Len(sibs) : i # DeletedPath[Len(DeletedPath)] => ~LooksLike(sibs[i], DeletedNode)

\* the reserved category is the last root category, the only one, and has
\* all its fields
ReservedWhole(cats) ==
  /\ ReservedLastAndComplete(cats)
  /\ Has(cats[Len(cats)], "sites")
  /\ Has(cats[Len(cats)], "children")

\* the client deleted in the tree that the store held
ClientTreeFresh == last.before = <<last.edit.arg>>

\* C11 as stated: deleting a category (handleDeleteCategory for a root
\* category; deleteCategoryByIndex followed by the whole-tree save for any
\* depth) removes, in one persisted write, the node with all its descendants
\* and all the sites they hold; afterwards no node with the deleted node's
\* id or title is a child of its former parent and every other node is
\* unchanged.
C11_DeleteCascades ==
  /\ DeleteByHandler => DeleteCascaded
  /\ (DeleteByClient /\ ClientTreeFresh) => DeleteCascaded

\* C11, amended: the same, for a node no sibling of which carries its id or
\* its title; for the client's deletion the node is not the reserved root
\* category and the tree holds the reserved category last and whole (the save
\* handler puts the reserved category back when it is missing, moves it to the
\* end and completes it).
C11_DeleteCascadesWhenUnambiguous ==
  /\ (DeleteByHandler /\ NoLookAlikeSibling) => DeleteCascaded
  /\ (DeleteByClient /\ ClientTreeFresh /\ NoLookAlikeSibling
        /\ ReservedWhole(TreeBeforeDelete)
        /\ ~(Len(DeletedPath) = 1 /\ Reserved(DeletedNode)))
       => DeleteCascaded

\* a category with a subcategory, holding two sites in all, deleted by the
\* client in a tree that meets the conditions
C11_Witness ==
  /\ DeleteByClient /\ ClientTreeFresh /\ NoLookAlikeSibling
  /\ ReservedWhole(TreeBeforeDelete)
  /\ ~(Len(DeletedPath) = 1 /\ Reserved(DeletedNode))
  /\ ChildrenOf(DeletedNode) # << >>
  /\ CountSites(<<DeletedNode>>) = 2
  /\ DeleteCascaded

-----------------------------------------------------------------------------
(* src/unnamed/part_001: deleting sites *)

\* DELETE /api/admin/sites/:categoryId/:siteTitle
handleDeleteSite(kvSnapshot, kvFavicons, categoryId, siteTitle) ==
  LET r == LoadCurrentData(SiteManager(kvSnapshot, kvFavicons))
      currentData == r.val[1]
      cats == CatsOf(currentData)
      categoryIndex == FindIndex(cats, LAMBDA cat : Has(cat, "id") /\ cat.id = categoryId)
      siteIndex == IF categoryIndex # 0 /\ Has(cats[categoryIndex], "sites")
                   THEN FindIndex(cats[categoryIndex].sites,
                                  LAMBDA site : site.title = siteTitle)
                   ELSE 0
  IN IF r.val = << >> \/ ~Has(currentData, "categories")
     THEN SiteOutcome(r.m, createErrorResponse("failed", StatusNamed("INTERNAL_SERVER_ERROR")))
     ELSE IF categoryIndex = 0
     THEN SiteOutcome(r.m, createErrorResponse("no category", StatusNamed("NOT_FOUND")))
     ELSE IF ~Has(cats[categoryIndex], "sites")
     THEN SiteOutcome(r.m, createErrorResponse("failed", StatusNamed("INTERNAL_SERVER_ERROR")))
     ELSE IF siteIndex = 0
     THEN SiteOutcome(r.m, createErrorResponse("no site", StatusNamed("NOT_FOUND")))
     ELSE
       LET deletedSite == cats[categoryIndex].sites[siteIndex]
           spliced == [currentData EXCEPT
                         !.categories[categoryIndex].sites = RemoveAt(@, siteIndex)]
       IN SiteOutcome(saveNavigationData(r.m, spliced),
                      createSuccessResponse([message |-> "deleted", site |-> deletedSite]))

DeleteStart(kvSnapshot, kvFavicons) ==
  [m |-> SiteManager(kvSnapshot, kvFavicons), pending |-> << >>, deleted |-> 0]

\* the loop of handleBatchDeleteSites: node.sites filtered by the item's titles
RECURSIVE DeleteItems(_, _)
DeleteItems(st0, items) ==
  IF items = << >> THEN st0
  ELSE LET it == Head(items)
           titles == IF Has(it, "titles") THEN it.titles ELSE << >>
           segments == normalizeSegments(it)
       IN IF titles = << >> \/ pathKey(segments) = EmptyStr
          THEN DeleteItems(st0, Tail(items))
          ELSE LET Filter(st) ==
                     LET i == RecordIndex(st, pathKey(segments))
                         node == st.pending[i].node
                         titleSet == {t \in {Trim(titles[k]) : k \in 1..Len(titles)} :
                                        t # EmptyStr}
                         remain == SelectSeq(node.sites,
                                             LAMBDA x : ~(Has(x, "title") /\ x.title \in titleSet))
                     IN [AssignSites(st, i, remain) EXCEPT
                           !.deleted = @ + (Len(node.sites) - Len(remain))]
               IN CHOOSE r \in {DeleteItems(next, Tail(items)) :
                                  next \in {Filter(st) : st \in {ensureRecord(st0, segments)}}}
                    : TRUE

\* DELETE /api/admin/sites
handleBatchDeleteSites(kvSnapshot, kvFavicons, body) ==
  LET items == IF Has(body, "items") THEN body.items ELSE << >>
      st0 == DeleteStart(kvSnapshot, kvFavicons)
  IN IF items = << >>
     THEN SiteOutcome(st0.m, createErrorResponse("no items", StatusNamed("BAD_REQUEST")))
     ELSE LET Answer(st) ==
                [SiteOutcome(FlushPending(st),
                             createSuccessResponse([message |-> "done",
                                                    deleted |-> st.deleted]))
                   EXCEPT !.bulk = PendingUpdates(st)]
          IN CHOOSE r \in {Answer(st) : st \in {DeleteItems(st0, items)}} : TRUE

-----------------------------------------------------------------------------
(* The site API serving deletions *)

MISSING == <<"x">>

BatchDeleteItems ==
  {[path |-> <<A>>, titles |-> << <<"s">>, MISSING >>],
   [path |-> <<A, B>>, titles |-> << <<"s">>, <<"t">> >>],
   [path |-> <<AB>>, titles |-> << <<"t">> >>],
   [path |-> <<UNC_TITLE>>, titles |-> << <<"s">> >>],
   [path |-> <<MISSING>>, titles |-> << <<"s">> >>]}

DeleteSite ==
  /\ nreq < MaxRequests
  /\ \E c \in CategoryIds, t \in SiteTitles \cup {MISSING} :
       ServedSite("deleteSite", [categoryId |-> c, siteTitle |-> t],
                  handleDeleteSite(snapshot, favicons, c, t))

BatchDeleteSites ==
  /\ nreq < MaxRequests
  /\ \E items \in SeqsUpTo(BatchDeleteItems, MaxItems) \ {<< >>} :
       LET body == [items |-> items]
       IN ServedSite("batchDelete", body, handleBatchDeleteSites(snapshot, favicons, body))

NextSiteDeletes == DeleteSite \/ BatchDeleteSites

SpecSiteDeletes == InitCategories /\ [][NextSiteDeletes]_vars

-----------------------------------------------------------------------------
(* C12 *)

BatchDeleteServed == last.op = "batchDelete" /\ HadDocument

HasSiteTitled(node, title) ==
  \E i \in 1..Len(SitesOf(node)) :
    Has(SitesOf(node)[i], "title") /\ SitesOf(node)[i].title = title

\* the requested (category, title) pairs that name a site of the persisted
\* tree: the category by its position, each pair once
ExistingRequested ==
  UNION {LET it == last.body.items[k]
             pos == PositionOfTitles(BeforeCats, it.path)
         IN {[pos |-> pos, title |-> it.titles[n]] :
               n \in {j \in 1..Len(it.titles) :
                        pos # << >> /\ HasSiteTitled(NodeAt(BeforeCats, pos), it.titles[j])}}
         : k \in 1..Len(last.body.items)}

\* C12: in handleBatchDeleteSites the requested (path, title) pairs that
\* name no existing site do not abort the batch; every requested site that
\* exists is removed from the persisted tree, and the reported 'deleted'
\* count equals the number of requested titles that existed.
C12_BatchDeletePartialSuccess ==
  BatchDeleteServed
    => /\ Succeeded
       /\ \A x \in ExistingRequested : ~HasSiteTitled(NodeAt(AfterCats, x.pos), x.title)
       /\ last.resp.data.deleted = Cardinality(ExistingRequested)

-----------------------------------------------------------------------------
(* src/src/handlers/bookmarkImportHandler.js: handleImportBookmarks, from  *)
(* the categories parseBookmarksHtml returns. The urls already seen are a   *)
(* set threaded through the merge; a step answers [cats, urls].             *)

\* the urls of all sites of a forest (collectExistingUrls, and the stack
\* walk over a pushed subtree)
RECURSIVE UrlsIn(_)
UrlsIn(cats) ==
  UNION {{SitesOf(cats[i])[j].url :
            j \in {k \in 1..Len(SitesOf(cats[i])) : NotEmptyField(SitesOf(cats[i])[k], "url")}}
         \cup UrlsIn(ChildrenOf(cats[i])) : i \in 1..Len(cats)}

\* (source.sites || []).forEach: a site whose url was seen is skipped
RECURSIVE MergeSites(_, _, _)
MergeSites(target, srcSites, urls) ==
  IF srcSites = << >> THEN [node |-> target, urls |-> urls]
  ELSE LET site == Head(srcSites)
       IN IF ~NotEmptyField(site, "url") \/ site.url \in urls
          THEN MergeSites(target, Tail(srcSites), urls)
          ELSE MergeSites(SetField(target, "sites", Append(SitesOf(target), site)),
                          Tail(srcSites), urls \cup {site.url})

\* mergeCategory(target, source) and the loop over the source's children
\* (also the loop over parsed.categories at the root)
RECURSIVE mergeCategory(_, _, _)
RECURSIVE MergeChildren(_, _, _)
mergeCategory(target, source, urls) ==
  CHOOSE r \in
    {LET kids == MergeChildren(ChildrenOf(s.node), ChildrenOf(source), s.urls)
     IN [node |-> SetField(s.node, "children", kids.cats), urls |-> kids.urls]
       : s \in {MergeSites(target, SitesOf(source), urls)}} : TRUE

MergeChildren(targetChildren, srcChildren, urls) ==
  IF srcChildren = << >> THEN [cats |-> targetChildren, urls |-> urls]
  ELSE LET srcChild == Head(srcChildren)
           idx == FindIndex(targetChildren, LAMBDA c : TitleOf(c) = TitleOf(srcChild))
       IN IF idx = 0
          THEN MergeChildren(Append(targetChildren, srcChild), Tail(srcChildren),
                             urls \cup UrlsIn(<<srcChild>>))
          ELSE CHOOSE r \in
                 {MergeChildren([targetChildren EXCEPT ![idx] = merged.node],
                                Tail(srcChildren), merged.urls)
                    : merged \in {mergeCategory(targetChildren[idx], srcChild, urls)}} : TRUE

\* POST /api/admin/import/bookmarks?mode=merge|replace with a file that
\* parses to the given categories (the summary counters are left out of the
\* response)
handleImportBookmarks(kvSnapshot, kvFavicons, mode, parsed) ==
  LET m0 == SiteManager(kvSnapshot, kvFavicons)
  IN IF CountSites(parsed) = 0
     THEN SiteOutcome(m0, createErrorResponse("no bookmarks", StatusNamed("BAD_REQUEST")))
     ELSE
       LET r == getNavigationDataWithFallback(m0)
       IN IF r.val = << >> \/ (mode # "replace" /\ ~Has(r.val[1], "categories"))
          THEN SiteOutcome(r.m, createErrorResponse("failed",
                                                    StatusNamed("INTERNAL_SERVER_ERROR")))
          ELSE
            LET currentData == r.val[1]
                existingUrlSet == UrlsIn(CatsOf(currentData))
                merged == MergeChildren(IF mode = "replace" THEN << >> ELSE currentData.categories,
                                        parsed, existingUrlSet)
                saved == SetField(currentData, "categories", merged.cats)
                \* in replace mode currentData is a new object: the module's is untouched
                m1 == IF mode = "replace" THEN [r.m EXCEPT !.shared = FALSE] ELSE r.m
            IN SiteOutcome(saveNavigationData(m1, saved),
                           createSuccessResponse([message |-> "imported"]))

-----------------------------------------------------------------------------
(* The admin API as a whole: whole-tree saves, the category handlers, the   *)
(* site handlers and the bookmark import, served in any order               *)

BM_ID == <<"bm">>

\* a category and a site as parseBookmarksHtml shapes them
BmCat(id, title, sites, children) ==
  [id |-> id, title |-> title, icon |-> FOLDER_ICON, sites |-> sites, children |-> children]

BmSite(title, url) ==
  [title |-> title, description |-> EmptyStr, url |-> url, icon |-> GLOBE_ICON]

ParsedBookmarks ==
  {<<BmCat(BM_ID, BM_ID, <<BmSite(<<"s">>, U2)>>, << >>)>>,
   <<BmCat(A, A, <<BmSite(<<"t">>, U1)>>,
           <<BmCat(B, B, <<BmSite(<<"s">>, U2)>>, << >>)>>)>>,
   <<BmCat(BM_ID, BM_ID, << >>, << >>)>>}

ImportBookmarks ==
  /\ nreq < MaxRequests
  /\ \E mode \in {"merge", "replace"}, parsed \in ParsedBookmarks :
       ServedSite("importBookmarks", [mode |-> mode, parsed |-> parsed],
                  handleImportBookmarks(snapshot, favicons, mode, parsed))

NextAdmin ==
  \/ ImportData
  \/ SaveAdminData
  \/ GetAdminData
  \/ AddCategory
  \/ UpdateCategory
  \/ DeleteCategory
  \/ AddSite
  \/ UpdateSite
  \/ MoveSite
  \/ DeleteSite
  \/ BatchAddSites
  \/ BatchUpdateSites
  \/ BatchMoveSites
  \/ BatchDeleteSites
  \/ ImportBookmarks

SpecAdmin == Init /\ [][NextAdmin]_vars

-----------------------------------------------------------------------------
(* C13 *)

\* the persisted document lists a root category carrying the reserved id
\* or title
HasReservedRoot(snap) ==
  /\ snap # << >>
  /\ \E i \in 1..Len(CatsOf(snap[1])) : Reserved(CatsOf(snap[1])[i])

\* C13: once the document has been initialised, the root category list of
\* every reachable persisted state contains the reserved category, whatever
\* sequence of admin operations (whole-tree save, add, update or delete
\* category, site operations, bookmark import in merge or replace mode) is
\* applied.
C13_ReservedAlwaysExists == snapshot # << >> => HasReservedRoot(snapshot)

-----------------------------------------------------------------------------
(* src/unnamed/part_000: ensureUncategorizedCategory, and documents whose   *)
(* reserved category is incomplete                                          *)

\* the field repairs of ensureUncategorizedCategory
ClientRepairUncategorized(unc) ==
  LET u1 == IF ~Has(unc, "id") \/ unc.id # UNC_ID THEN SetField(unc, "id", UNC_ID) ELSE unc
      u2 == IF ~Has(u1, "icon") THEN SetField(u1, "icon", FOLDER_ICON) ELSE u1
      u3 == IF ~Has(u2, "children") THEN SetField(u2, "children", << >>) ELSE u2
  IN IF ~Has(u3, "sites") THEN SetField(u3, "sites", << >>) ELSE u3

\* documents a first save stored with the reserved category short of its
\* icon, its sites, its children, or all three, and one without it
IncompleteDocs ==
  { Doc(<<Cat(A, A, <<S1>>, << >>),
          [id |-> UNC_ID, title |-> UNC_TITLE, sites |-> <<S2>>, children |-> << >>]>>),
    Doc(<<Cat(A, A, <<S1>>, << >>),
          [id |-> UNC_ID, title |-> UNC_TITLE, icon |-> FOLDER_ICON, children |-> << >>]>>),
    Doc(<<Cat(A, A, <<S1>>, << >>),
          [id |-> UNC_ID, title |-> UNC_TITLE, icon |-> FOLDER_ICON, sites |-> <<S2>>]>>),
    Doc(<<[title |-> UNC_TITLE], Cat(A, A, <<S1>>, << >>)>>),
    Doc(<<Cat(A, B, <<S1>>, << >>)>>),
    Doc(<<Cat(A, B, <<S1>>, << >>), Unc(<< >>)>>) }

InitHeal ==
  /\ snapshot \in {<<d>> : d \in IncompleteDocs}
  /\ favicons = {}
  /\ last = NoRequest
  /\ nreq = 0
  /\ adminData = << >>
  /\ bundled = navigationData
  /\ kvBound = TRUE
  /\ Idle

\* ensureUncategorizedCategory on the loaded document doc: the reserved
\* category is pushed or repaired in place and, when that changed the
\* document, the document is posted whole. posted: a request was made; out:
\* its outcome; doc: the loaded document afterwards (a failed creation shifts
\* the first category out and throws, a failed repair is swallowed); id: the
\* id returned
ensureUncategorizedCategory(kvSnapshot, doc) ==
  LET cats == CatsOf(doc)
      i == FindIndex(cats, IsUncategorized)
      local == IF i = 0 THEN Append(cats, NewUncategorized)
               ELSE [cats EXCEPT ![i] = ClientRepairUncategorized(@)]
      payload == [doc EXCEPT !.categories = local]
      posted == local # cats
      Result(out) ==
        [posted |-> posted, created |-> i = 0, found |-> i, payload |-> payload,
         out |-> out,
         threw |-> i = 0 /\ ~out.resp.success,
         doc |-> IF i = 0 /\ ~out.resp.success
                 THEN [doc EXCEPT !.categories = Tail(local)] ELSE payload,
         id |-> UNC_ID]
  IN CHOOSE r \in {Result(out) :
                     out \in {IF posted THEN handleSaveAdminData(kvSnapshot, [data |-> payload])
                              ELSE [kv |-> kvSnapshot, resp |-> << >>, puts |-> << >>,
                                    bulk |-> << >>, bundle |-> bundled]}} : TRUE

\* opening the add-site dialog: ensureUncategorizedCategory with its request
EnsureUncategorizedCategory ==
  /\ nreq < MaxRequests
  /\ adminData # << >>
  /\ \E ens \in {ensureUncategorizedCategory(snapshot, adminData[1])} :
       /\ ens.posted
       /\ ServedAdmin("ensureUncategorized", [data |-> ens.payload],
                      [kind |-> IF ens.created THEN "create" ELSE "repair",
                       path |-> <<ens.found>>, arg |-> adminData[1]],
                      ens.out)
       /\ adminData' = <<ens.doc>>
  /\ UNCHANGED <<favicons, kvBound, inflight, clock, favMeta>>

NextHeal == GetAdminData \/ SaveAdminData \/ EnsureUncategorizedCategory

SpecHeal == InitHeal /\ [][NextHeal]_vars

-----------------------------------------------------------------------------
(* C14 *)

Incomplete(c) == ~Has(c, "icon") \/ ~Has(c, "sites") \/ ~Has(c, "children")

\* the reserved category of the posted tree as the request carried it: as
\* the client loaded it for ensureUncategorizedCategory, as posted for a save
TouchedReserved ==
  LET cats == IF last.op = "ensureUncategorized" THEN CatsOf(last.edit.arg)
              ELSE CatsOf(last.body.data)
  IN cats[FindIndex(cats, IsUncategorized)]

TouchesIncompleteReserved ==
  /\ last.op \in {"save", "ensureUncategorized"}
  /\ Has(last.body, "data")
  /\ HadDocument
  /\ Succeeded
  /\ LET cats == IF last.op = "ensureUncategorized" THEN CatsOf(last.edit.arg)
                 ELSE CatsOf(last.body.data)
     IN FindIndex(cats, IsUncategorized) # 0
  /\ Incomplete(TouchedReserved)

RepairedReserved ==
  RepairUncategorized(IF last.op = "ensureUncategorized"
                      THEN ClientRepairUncategorized(TouchedReserved)
                      ELSE TouchedReserved)

\* C14: when the reserved category in the tree lacks one of icon, sites or
\* children, an operation that touches it (ensureUncategorized inside
\* handleSaveAdminData; ensureUncategorizedCategory in the admin client
\* followed by its save request) adds the missing fields, and the repaired
\* category is a root category of the persisted document afterwards.
C14_SelfHealingPersisted ==
  TouchesIncompleteReserved
    => \E i \in 1..Len(AfterCats) :
         /\ AfterCats[i] = RepairedReserved
         /\ ~Incomplete(AfterCats[i])

-----------------------------------------------------------------------------
(* src/unnamed/part_000: addSite *)

SITE_SUFFIX == <<"-site">>

\* the values of the category select: none, a root title, the reserved
\* title, a title holding a slash
ClientDestinations == {EmptyStr, A, UNC_TITLE, AB}

\* addSite with the dialog's fields filled in: the destination is split into
\* segments; with none, ensureUncategorizedCategory supplies the id of the
\* reserved category; the site goes to PUT /api/admin/sites and the document
\* is loaded again
ClientAddSite ==
  /\ nreq < MaxRequests
  /\ adminData # << >>
  /\ \E categoryPathStr \in ClientDestinations, title \in SiteTitles, url \in Urls :
       \E fetched \in FetchOutcomes(<<url>>),
          ens \in {ensureUncategorizedCategory(snapshot, adminData[1])} :
         LET chosen == FilterNonEmpty(MapTrim(SplitSlash(categoryPathStr)))
             byDefault == chosen = << >>
             categoryPath == IF byDefault THEN <<ens.id>> ELSE chosen
             body == [mode |-> "add",
                      items |-> <<[path |-> categoryPath,
                                   site |-> [title |-> title, url |-> url,
                                             description |-> title \o SITE_SUFFIX,
                                             icon |-> EmptyStr]]>>]
             kv1 == IF byDefault THEN ens.out.kv ELSE snapshot
             doc1 == IF byDefault THEN ens.doc ELSE adminData[1]
             edit == [kind |-> IF byDefault THEN "default" ELSE "chosen",
                      path |-> categoryPath, arg |-> url]
         IN IF byDefault /\ ens.threw
            THEN /\ ServedAdmin("ensureUncategorized", [data |-> ens.payload], edit, ens.out)
                 /\ adminData' = <<doc1>>
                 /\ UNCHANGED favicons
            ELSE \E out \in {handleBatchAddSites(kv1, favicons, body, fetched)} :
                 \E reload \in {handleGetAdminData(out.kv)} :
                   /\ snapshot' = IF out.resp.success THEN reload.kv ELSE out.kv
                   /\ favicons' = out.fav
                   /\ last' = [op |-> "clientAddSite", body |-> body, edit |-> edit,
                               before |-> snapshot, resp |-> out.resp, puts |-> out.puts,
                               bulk |-> out.bulk, mem |-> bundled]
                   /\ nreq' = nreq + 1
                   /\ bundled' = out.bundle
                   /\ adminData' = IF out.resp.success /\ reload.resp.success
                                   THEN <<reload.resp.data.data>> ELSE <<doc1>>
  /\ UNCHANGED <<kvBound, inflight, clock, favMeta>>

NextClientAdd == GetAdminData \/ EnsureUncategorizedCategory \/ ClientAddSite

SpecClientAdd == InitCategories /\ [][NextClientAdd]_vars

-----------------------------------------------------------------------------
(* C15 *)

AddedByDefault ==
  /\ last.op = "clientAddSite"
  /\ last.edit.kind = "default"
  /\ Succeeded

\* C15: when the client's addSite is given no destination category, it
\* locates or creates the reserved category, the new site is afterwards in
\* the sites of the persisted reserved root category, and every folder the
\* partial write addresses is that category.
C15_DefaultDestination ==
  AddedByDefault
    => /\ \E i \in 1..Len(AfterCats) :
            /\ IsUncategorized(AfterCats[i])
            /\ HasUrl(AfterCats[i], last.edit.arg)
       /\ \A k \in 1..Len(last.bulk) :
            LET pos == findNode(AfterCats, last.bulk[k].segments, 1)
            IN pos # << >> /\ IsUncategorized(NodeAt(AfterCats, pos))

-----------------------------------------------------------------------------
(* Moving a site to the reserved category: by posting the edited tree to    *)
(* POST /api/admin/data, or by PATCH /api/admin/sites                       *)

\* one category holding one site, and the same tree with the reserved
\* category after it
DevTree == Doc(<<Cat(A, A, <<S1>>, << >>)>>)
DevTreeWithReserved == Doc(<<Cat(A, A, <<S1>>, << >>), Unc(<< >>)>>)

\* the tree with site k of the category at p taken out and appended to the
\* reserved root category, which is added last when the tree has none
MoveToUncategorized(doc, p, k) ==
  LET cats == CatsOf(doc)
      n == NodeAt(cats, p)
      site == SitesOf(n)[k]
      taken == ReplaceAt(cats, p, SetField(n, "sites", RemoveAt(SitesOf(n), k)))
      u == FindIndex(taken, IsUncategorized)
  IN [doc EXCEPT !.categories =
        IF u = 0 THEN Append(taken, Unc(<<site>>))
        ELSE [taken EXCEPT ![u] = SetField(@, "sites", Append(SitesOf(@), site))]]

InitMove ==
  /\ snapshot \in {<<d>> : d \in {DevTree, DevTreeWithReserved}
                                 \cup {x \in ImportDocs : UniqueUrls(CatsOf(x))}}
  /\ favicons = {}
  /\ last = NoRequest
  /\ nreq = 0
  /\ adminData = << >>
  /\ bundled = navigationData
  /\ kvBound = TRUE
  /\ Idle

\* POST /api/admin/data with the loaded tree after one site was moved to the
\* reserved category
SaveMoved ==
  /\ nreq < MaxRequests
  /\ adminData # << >>
  /\ \E p \in AllIndexPaths(CatsOf(adminData[1])) :
       /\ ~(Len(p) = 1 /\ IsUncategorized(CatsOf(adminData[1])[p[1]]))
       /\ \E k \in 1..Len(SitesOf(NodeAt(CatsOf(adminData[1]), p))) :
            \E payload \in {MoveToUncategorized(adminData[1], p, k)} :
              /\ ServedAdmin("saveMoved", [data |-> payload],
                             [kind |-> "move", path |-> p, arg |-> k],
                             handleSaveAdminData(snapshot, [data |-> payload]))
              /\ adminData' = <<payload>>
  /\ UNCHANGED <<favicons, kvBound, inflight, clock, favMeta>>

NextMove == GetAdminData \/ SaveMoved \/ BatchMoveSites \/ MoveSite

SpecMove == InitMove /\ [][NextMove]_vars

-----------------------------------------------------------------------------
(* C16 *)

\* the last request moved the single site of the single category of DevTree
\* to the reserved category
MovedFromDevTree ==
  /\ last.before = <<DevTree>>
  /\ \/ last.op = "saveMoved"
     \/ /\ last.op = "batchMove"
        /\ last.body.target = <<UNC_TITLE>>
        /\ Len(last.body.items) = 1
        /\ last.body.items[1].path = <<A>>
        /\ \E n \in 1..Len(last.body.items[1].titles) :
             last.body.items[1].titles[n] = S1.title

PartialPlanFor(paths) ==
  /\ last.op = "saveMoved" => last.resp.data.mode = "bulk-sites"
  /\ {last.bulk[i].segments : i \in 1..Len(last.bulk)} = paths
  /\ Len(last.bulk) = Cardinality(paths)

MovedAsExpected ==
  /\ Succeeded
  /\ \E i, j \in 1..Len(AfterCats) :
       /\ TitleOf(AfterCats[i]) = A
       /\ SitesOf(AfterCats[i]) = << >>
       /\ IsUncategorized(AfterCats[j])
       /\ Len(SitesOf(AfterCats[j])) = 1
       /\ SitesOf(AfterCats[j])[1].url = S1.url
  /\ PartialPlanFor({<<A>>, <<UNC_TITLE>>})

\* C16: starting from the persisted tree of one category with the single
\* site, moving that site to the reserved category and saving leaves the
\* category with no sites and the reserved category with exactly the entry
\* of that url, and the write is partial with update entries for exactly the
\* title paths of the category and of the reserved category.
C16_MoveScenario == MovedFromDevTree => MovedAsExpected

-----------------------------------------------------------------------------
(* src/unnamed/part_000: the sort dialogs. order starts as the keys of the  *)
(* list and is only ever changed by swapping two entries or moving one, so  *)
(* what the confirm callback reads is a rearrangement of the keys           *)

OrdersOf(keys) ==
  {[i \in 1..Len(keys) |-> keys[f[i]]] :
     f \in {g \in [1..Len(keys) -> 1..Len(keys)] :
              \A a, b \in 1..Len(keys) : a # b => g[a] # g[b]}}

\* the list the confirm callback would build if it left the list as it is
ReorderByKeys_KeepList(items, keys, order) == items

\* new Map(items.map(x => [key(x), x])): a later entry replaces an earlier
\* one of the same key; order.map(k => map.get(k)).filter(Boolean); then
\* every item whose key order does not include is pushed
ReorderByKeys(items, keys, order) ==
  LET Got(k) == IF \E i \in 1..Len(keys) : keys[i] = k
                THEN CHOOSE i \in 1..Len(keys) :
                       keys[i] = k /\ \A j \in (i + 1)..Len(keys) : keys[j] # k
                ELSE 0
      got == SelectSeq([n \in 1..Len(order) |-> Got(order[n])], LAMBDA i : i # 0)
      left == SelectSeq([i \in 1..Len(items) |-> i],
                        LAMBDA i : \A n \in 1..Len(order) : order[n] # keys[i])
  IN [n \in 1..Len(got) |-> items[got[n]]] \o [n \in 1..Len(left) |-> items[left[n]]]

\* categories.map(c => c.id), undefined read as the empty string (no
\* category of the documents carries an empty id)
TopKeys(cats) == [i \in 1..Len(cats) |-> IdOrEmpty(cats[i])]

\* children.map(c => c.id || c.title)
ChildKeys(cats) == [i \in 1..Len(cats) |-> KeyOf(cats[i])]

\* siteKey: `${s.title || ''}||${s.url || ''}`
siteKey(s) ==
  (IF Has(s, "title") THEN s.title ELSE EmptyStr) \o <<"||">>
    \o (IF Has(s, "url") THEN s.url ELSE EmptyStr)

SiteKeys(sites) == [i \in 1..Len(sites) |-> siteKey(sites[i])]

\* showSortChildrenModal: from the category found, down through categories
\* with exactly one child, five levels at most
RECURSIVE Descend(_, _, _)
Descend(cats, p, descendGuard) ==
  IF Len(ChildrenOf(NodeAt(cats, p))) = 1 /\ descendGuard < 5
  THEN Descend(cats, p \o <<1>>, descendGuard + 1)
  ELSE p

\* documents with several sites in one category, next to the imported ones
SortDocs ==
  ImportDocs \cup {Doc(<<Cat(A, A, <<S1, S2, S3>>, << >>), Unc(<<S3, S1>>)>>)}

\* the admin page is open: it has loaded the persisted document
InitSort ==
  /\ snapshot \in {<<d>> : d \in SortDocs}
  /\ favicons = {}
  /\ last = NoRequest
  /\ nreq = 0
  /\ adminData = snapshot
  /\ bundled = navigationData
  /\ kvBound = TRUE
  /\ Idle

\* the confirm callback of a sort dialog after the list was rebuilt: the
\* loaded document is posted whole and, when that succeeded, loaded again
SortConfirmed(op, path, items, newItems, order, payload) ==
  \E out \in {handleSaveAdminData(snapshot, [data |-> payload])} :
  \E reload \in {handleGetAdminData(out.kv)} :
    /\ ServedAdmin(op, [data |-> payload],
                   [kind |-> op, path |-> path,
                    arg |-> [items |-> items, newItems |-> newItems, order |-> order]],
                   out)
    /\ adminData' = IF out.resp.success /\ reload.resp.success
                    THEN <<reload.resp.data.data>> ELSE <<payload>>

SortTopCategories ==
  /\ nreq < MaxRequests
  /\ adminData # << >>
  /\ Has(adminData[1], "categories")
  /\ LET categories == adminData[1].categories
     IN \E order \in OrdersOf(TopKeys(categories)) :
        \E newCats \in {ReorderByKeys(categories, TopKeys(categories), order)} :
          SortConfirmed("sortTop", << >>, categories, newCats, order,
                        [adminData[1] EXCEPT !.categories = newCats])
  /\ UNCHANGED <<favicons, kvBound, inflight, clock, favMeta>>

SortChildren ==
  /\ nreq < MaxRequests
  /\ adminData # << >>
  /\ \E p \in AllIndexPaths(CatsOf(adminData[1])) :
       LET cats == CatsOf(adminData[1])
           q == Descend(cats, p, 0)
           node == NodeAt(cats, q)
           children == ChildrenOf(node)
       IN /\ Len(children) > 1
          /\ \E order \in OrdersOf(ChildKeys(children)) :
             \E newChildren \in {ReorderByKeys(children, ChildKeys(children), order)} :
               SortConfirmed("sortChildren", q, children, newChildren, order,
                             [adminData[1] EXCEPT !.categories =
                                ReplaceAt(cats, q, SetField(node, "children", newChildren))])
  /\ UNCHANGED <<favicons, kvBound, inflight, clock, favMeta>>

SortSites ==
  /\ nreq < MaxRequests
  /\ adminData # << >>
  /\ \E p \in AllIndexPaths(CatsOf(adminData[1])) :
       LET cats == CatsOf(adminData[1])
           node == NodeAt(cats, p)
           sites == SitesOf(node)
       IN /\ Len(sites) > 1
          /\ \E order \in OrdersOf(SiteKeys(sites)) :
             \E newSites \in {ReorderByKeys(sites, SiteKeys(sites), order)} :
               SortConfirmed("sortSites", p, sites, newSites, order,
                             [adminData[1] EXCEPT !.categories =
                                ReplaceAt(cats, p, SetField(node, "sites", newSites))])
  /\ UNCHANGED <<favicons, kvBound, inflight, clock, favMeta>>

NextSort == GetAdminData \/ SortTopCategories \/ SortChildren \/ SortSites

SpecSort == InitSort /\ [][NextSort]_vars

-----------------------------------------------------------------------------
(* C17 *)

SortTopServed == last.op = "sortTop" /\ HadDocument /\ Succeeded

ProposedOrder == last.edit.arg.order

\* the dialog was confirmed with an order other than the persisted one
OrderChanged == ProposedOrder # TopKeys(BeforeCats)

\* the ids of the posted root list with its reserved category, given the
\* reserved id if it has none, taken to the end, or added there if the list
\* has none
PinnedOrder ==
  LET posted == CatsOf(last.body.data)
      u == FindIndex(posted, IsUncategorized)
  IN IF u = 0 THEN TopKeys(posted) \o <<UNC_ID>>
     ELSE TopKeys(RemoveAt(posted, u))
            \o <<IF IdOrEmpty(posted[u]) = EmptyStr THEN UNC_ID ELSE IdOrEmpty(posted[u])>>

\* C17 as stated: reordering the root categories to any proposed order
\* (showSortTopCategoriesModal followed by handleSaveAdminData) is written in
\* full, and the persisted root list is afterwards in exactly the proposed
\* order.
C17_ReorderScenario ==
  (SortTopServed /\ OrderChanged)
    => /\ last.resp.data.mode = "snapshot"
       /\ TopKeys(AfterCats) = ProposedOrder

\* C17, amended: the posted root list is in the proposed order; the handler
\* keeps the reserved category last (adding it when the list has none), and
\* when the order so pinned differs from the persisted one the tree is
\* written in full and the persisted root list is in the pinned order;
\* otherwise the persisted order stays as it was.
C17_ReorderPinsReserved ==
  (SortTopServed /\ OrderChanged)
    => /\ TopKeys(CatsOf(last.body.data)) = ProposedOrder
       /\ PinnedOrder # TopKeys(BeforeCats)
            => /\ last.resp.data.mode = "snapshot"
               /\ TopKeys(AfterCats) = PinnedOrder
       /\ PinnedOrder = TopKeys(BeforeCats)
            => TopKeys(AfterCats) = TopKeys(BeforeCats)

\* three root categories were put in another order and written in full
C17_Witness ==
  /\ SortTopServed /\ OrderChanged
  /\ Len(ProposedOrder) >= 3
  /\ PinnedOrder # TopKeys(BeforeCats)
  /\ last.resp.data.mode = "snapshot"
  /\ TopKeys(AfterCats) = PinnedOrder

-----------------------------------------------------------------------------
(* C18 *)

SortConfirmedLast == last.op \in {"sortTop", "sortChildren", "sortSites"}

Occurrences(seq, x) == Cardinality({i \in 1..Len(seq) : seq[i] = x})

IsRearrangement(a, b) ==
  /\ Len(a) = Len(b)
  /\ \A i \in 1..Len(a) : Occurrences(b, a[i]) = Occurrences(a, a[i])

\* C18: the list a sort dialog builds (showSortTopCategoriesModal,
\* showSortChildrenModal, showSortSitesModal) is a rearrangement of the list
\* it started from: every item occurs in it as often as in the original
\* list, so that none is dropped and none is duplicated.
C18_ReorderLosesNothing ==
  SortConfirmedLast => IsRearrangement(last.edit.arg.items, last.edit.arg.newItems)

-----------------------------------------------------------------------------
(* The handlers that change one category or one site, in a deployment with  *)
(* or without the NAVIGATION_KV binding                                     *)

InitWrites ==
  /\ kvBound \in BOOLEAN
  /\ Idle
  /\ snapshot \in IF kvBound
                  THEN {<< >>} \cup {<<d>> : d \in {x \in ImportDocs : UniqueUrls(CatsOf(x))}}
                  ELSE {<< >>}
  /\ favicons = {}
  /\ last = NoRequest
  /\ nreq = 0
  /\ adminData = << >>
  /\ bundled = navigationData

NextWrites ==
  \/ AddCategory
  \/ UpdateCategory
  \/ DeleteCategory
  \/ AddSite
  \/ UpdateSite
  \/ DeleteSite
  \/ MoveSite

SpecWrites == InitWrites /\ [][NextWrites]_vars

-----------------------------------------------------------------------------
(* C19 *)

MutationServed ==
  last.op \in {"addCategory", "updateCategory", "deleteCategory",
               "addSite", "updateSite", "deleteSite", "moveSite"}

SnapshotWritten == \E i \in 1..Len(last.puts) : last.puts[i] = SNAPSHOT_KEY

\* C19: a mutating handler (add/update/delete category, add/update/delete/
\* move site) answers success only if it wrote the document to the store;
\* without the KV binding it answers with an error and leaves the bundled
\* in-memory document as it was.
C19_WritesFailLoudly ==
  MutationServed
    => /\ Succeeded => SnapshotWritten
       /\ ~kvBound => (~Succeeded /\ bundled = last.mem)

-----------------------------------------------------------------------------
(* src/src/utils/kvStorage.js: clearAll; src/src/handlers/adminHandler.js:  *)
(* handleResetAdminData; src/unnamed/part_000: resetData                    *)

\* clearAll: every key under the navigation and favicon prefixes and the
\* legacy keys are deleted and the request cache is cleared
clearAll(m) ==
  IF ~isAvailable(m) THEN [m |-> m, ok |-> FALSE]
  ELSE [m |-> [m EXCEPT !.kv = << >>, !.fav = {}, !.cache = << >>, !.shared = FALSE],
        ok |-> TRUE]

\* DELETE /api/admin/data
handleResetAdminData(kvSnapshot, kvFavicons) ==
  LET m0 == SiteManager(kvSnapshot, kvFavicons)
  IN IF ~isAvailable(m0)
     THEN SiteOutcome(m0, createErrorResponse("kv unavailable",
                                              StatusNamed("SERVICE_UNAVAILABLE")))
     ELSE LET r == clearAll(m0)
          IN IF r.ok
             THEN SiteOutcome(r.m, createSuccessResponse([message |-> "reset"]))
             ELSE SiteOutcome(r.m, createErrorResponse("reset failed",
                                                       StatusNamed("INTERNAL_SERVER_ERROR")))

\* resetData confirmed: DELETE /api/admin/data and, when that succeeded,
\* loadAdminData, the next read of the tree
ResetData ==
  /\ nreq < MaxRequests
  /\ \E out \in {handleResetAdminData(snapshot, favicons)} :
     \E reload \in {handleGetAdminData(out.kv)} :
       /\ snapshot' = IF out.resp.success THEN reload.kv ELSE out.kv
       /\ favicons' = out.fav
       /\ last' = [op |-> "resetData", body |-> << >>,
                   edit |-> IF out.resp.success THEN <<reload.resp>> ELSE << >>,
                   before |-> snapshot, resp |-> out.resp,
                   puts |-> IF out.resp.success THEN reload.puts ELSE out.puts,
                   bulk |-> << >>, mem |-> bundled]
       /\ nreq' = nreq + 1
       /\ bundled' = IF out.resp.success THEN reload.bundle ELSE out.bundle
       /\ adminData' = IF out.resp.success /\ reload.resp.success
                       THEN <<reload.resp.data.data>> ELSE adminData
  /\ UNCHANGED <<kvBound, inflight, clock, favMeta>>

NextReset ==
  \/ GetAdminData
  \/ AddSite
  \/ AddCategory
  \/ DeleteCategory
  \/ ResetData

SpecReset == InitSites /\ [][NextReset]_vars

-----------------------------------------------------------------------------
(* C20 *)

ResetSucceeded == last.op = "resetData" /\ Succeeded

\* C20: after a successful reset (handleResetAdminData, clearAll) the next
\* read of the tree initialises the store again and returns exactly the
\* bundled default tree, whatever was served before the reset.
C20_ResetRestoresDefaults ==
  ResetSucceeded
    => /\ last.edit[1].success
       /\ last.edit[1].data.data = navigationData
       /\ snapshot = <<navigationData>>

-----------------------------------------------------------------------------
(* C21 *)

ReadServed == last.op = "getAdminData" /\ HadDocument /\ Succeeded

\* C21: the read cache of a KVStorageManager is private to one request: a
\* request that starts after a write has completed reads the document that
\* write stored, never a value an earlier request cached. A read of the
\* tree answers with the document the store held when the request started.
C21_ColdCachePerRequest == ReadServed => last.resp.data.data = last.before[1]

\* a read served after an earlier request wrote a document that is neither
\* one the store started with nor the bundled one
C21_Witness ==
  /\ ReadServed
  /\ nreq = 2
  /\ last.before[1] \notin ImportDocs \cup {navigationData}
  /\ last.resp.data.data = last.before[1]

-----------------------------------------------------------------------------
(* C22 *)

\* no url is listed twice anywhere in the tree
NoUrlTwice(cats) == CountSites(cats) = Cardinality(UrlsIn(cats))

MergeImported ==
  /\ last.op = "importBookmarks"
  /\ last.body.mode = "merge"
  /\ HadDocument
  /\ Succeeded

\* C22: after a bookmark import in merge mode into a tree in which no url
\* occurs twice, no url occurs more than once anywhere in the persisted
\* tree, the sites of imported categories that are new by title included.
C22_ImportDeduplicates ==
  (MergeImported /\ NoUrlTwice(BeforeCats)) => NoUrlTwice(AfterCats)

-----------------------------------------------------------------------------
(* Requests that overlap. A handler awaits the store at its first read and  *)
(* again at its put; between the two another request may run. The manager   *)
(* of the suspended request keeps the document it read in its cache, and    *)
(* every later read of that request is served from there.                   *)

RaceDocs ==
  {Doc(<<Cat(A, A, << >>, << >>), Cat(B, B, << >>, << >>), Unc(<< >>)>>),
   Doc(<<Cat(A, A, <<S3>>, << >>), Cat(B, B, << >>, << >>), Unc(<< >>)>>)}

RaceAddBodies ==
  {[categoryId |-> c, title |-> s.title, url |-> s.url, description |-> <<"d">>] :
     c \in {A, B}, s \in {S1, [S3 EXCEPT !.title = <<"t">>]}}

InitRace ==
  /\ snapshot \in {<<d>> : d \in RaceDocs}
  /\ favicons = {}
  /\ last = NoRequest
  /\ nreq = 0
  /\ adminData = << >>
  /\ bundled = navigationData
  /\ kvBound = TRUE
  /\ Idle

NumDone == Cardinality({i \in 1..Len(inflight) : inflight[i].pc = "done"})

\* the request has constructed its manager and its first getNavigationData
\* has returned
Suspend(op, body) ==
  /\ nreq < MaxRequests
  /\ snapshot # << >>
  /\ inflight' = Append(inflight, [op |-> op, body |-> body, read |-> snapshot,
                                   pc |-> "read", resp |-> << >>, wrote |-> 0])
  /\ nreq' = nreq + 1
  /\ UNCHANGED <<snapshot, favicons, last, adminData, bundled, kvBound, clock, favMeta>>

BeginAddSite ==
  /\ snapshot # << >>
  /\ \E body \in RaceAddBodies : Suspend("addSite", body)

\* POST /api/admin/data with the document as the store holds it, the site
\* list of one root category replaced
BeginSave ==
  /\ snapshot # << >>
  /\ \E i \in {1, 2} :
       Suspend("save",
               [data |-> ApplyEdit(snapshot[1],
                                   [kind |-> "sites", path |-> <<i>>, arg |-> <<S2>>])])

\* a mutation of the store that is applied only if the store still holds
\* what the request read
Commit_IfUnchanged(store, read, out) ==
  IF store = read /\ \E k \in 1..Len(out.puts) : out.puts[k] = SNAPSHOT_KEY
  THEN out.kv ELSE store

\* kv.put(SNAPSHOT_KEY, JSON.stringify(..)): the store holds what the request
\* put, whatever it held before
Commit(store, read, out) ==
  IF \E k \in 1..Len(out.puts) : out.puts[k] = SNAPSHOT_KEY THEN out.kv ELSE store

\* the rest of the handler runs: computed from the cached document, put
\* into the store as it is now
Resumed(i, out, fav) ==
  /\ snapshot' = Commit(snapshot, inflight[i].read, out)
  /\ favicons' = fav
  /\ last' = [op |-> inflight[i].op, body |-> inflight[i].body, edit |-> << >>,
              before |-> snapshot, resp |-> out.resp, puts |-> out.puts,
              bulk |-> out.bulk, mem |-> bundled]
  /\ inflight' = [inflight EXCEPT ![i].pc = "done", ![i].resp = <<out.resp>>,
                                  ![i].wrote = NumDone + 1]
  /\ bundled' = out.bundle
  /\ UNCHANGED <<nreq, adminData, kvBound, clock, favMeta>>

FinishAddSite ==
  \E i \in 1..Len(inflight) :
    /\ inflight[i].pc = "read" /\ inflight[i].op = "addSite"
    /\ \E fetched \in FetchOutcomes(<<inflight[i].body.url>>) :
         \E out \in {handleAddSite(inflight[i].read, favicons, inflight[i].body, fetched)} :
           Resumed(i, out, out.fav)

FinishSave ==
  \E i \in 1..Len(inflight) :
    /\ inflight[i].pc = "read" /\ inflight[i].op = "save"
    /\ \E out \in {handleSaveAdminData(inflight[i].read, inflight[i].body)} :
         Resumed(i, out, favicons)

NextRace == BeginAddSite \/ BeginSave \/ FinishAddSite \/ FinishSave

SpecRace == InitRace /\ [][NextRace]_vars

(* C23 *)

AnsweredSuccess(r) == r.pc = "done" /\ r.resp[1].success

\* the document r read, with the site of r's body appended to the category
\* the body names
WithOwnSite(r) ==
  LET cats == CatsOf(r.read[1])
      k == RootWithId(cats, r.body.categoryId)
  IN [r.read[1] EXCEPT !.categories[k].sites =
        Append(@, [title |-> r.body.title, description |-> r.body.description,
                   url |-> r.body.url, icon |-> GLOBE_ICON,
                   favicon |-> <<FAVICON_API, extractHost(r.body.url)[1]>>])]

\* i and j added different sites, both read the same document (so j read
\* before i wrote), both were answered success, and j wrote last
Raced(i, j) ==
  /\ i # j
  /\ inflight[i].op = "addSite" /\ inflight[j].op = "addSite"
  /\ AnsweredSuccess(inflight[i]) /\ AnsweredSuccess(inflight[j])
  /\ inflight[i].read = inflight[j].read
  /\ inflight[i].body # inflight[j].body
  /\ inflight[i].wrote < inflight[j].wrote
  /\ inflight[j].wrote = NumDone

\* C23: when two add-site requests overlap on one document and both are
\* answered success, the document finally stored is the one the later
\* writer computed from its own read: it holds the later writer's site and
\* not the earlier writer's; nothing makes the later put fail or merge.
C23_LastWriteWins ==
  \A i, j \in 1..Len(inflight) :
    Raced(i, j) => snapshot = <<WithOwnSite(inflight[j])>>

C23_Witness ==
  \E i, j \in 1..Len(inflight) :
    /\ Raced(i, j)
    /\ snapshot = <<WithOwnSite(inflight[j])>>
    /\ CountSites(AfterCats) = CountSites(CatsOf(inflight[j].read[1])) + 1

(* C24 *)

PartialWriteResumed ==
  /\ last.op = "save"
  /\ \E i \in 1..Len(inflight) : inflight[i].pc = "done" /\ inflight[i].wrote = NumDone
                                 /\ inflight[i].op = "save"
  /\ Succeeded
  /\ ModeOf(last.resp) = "bulk-sites"

\* the title paths the partial plan addresses
Addressed == {last.bulk[i].segments : i \in 1..Len(last.bulk)}

\* C24: a partial write leaves the site list of every category it does not
\* address as the store held it just before the write, whatever another
\* request committed there since this request's first read.
C24_PartialWriteKeepsOthers ==
  PartialWriteResumed =>
    \A p \in AllIndexPaths(BeforeCats) :
      TitlePathOf(BeforeCats, p) \notin Addressed =>
        /\ p \in AllIndexPaths(AfterCats)
        /\ SitesOf(NodeAt(AfterCats, p)) = SitesOf(NodeAt(BeforeCats, p))

-----------------------------------------------------------------------------
(* C25 *)

\* the payload, normalised, lists sites for a category that the persisted
\* tree lists differently
SiteListsChanged ==
  /\ SaveServed /\ HadDocument /\ Succeeded
  /\ \E p \in AllIndexPaths(CatsOf(NormalisedPayload)) :
       \/ p \notin AllIndexPaths(BeforeCats)
       \/ SitesOf(NodeAt(CatsOf(NormalisedPayload), p)) # SitesOf(NodeAt(BeforeCats, p))

\* C25: a save that answers success drops no site-list update: whether the
\* plan was partial or the whole document was written, every category of
\* the payload has the payload's site list in the store afterwards; a title
\* path or a counterpart that is not found makes the save write the whole
\* document.
C25_NoDroppedUpdate ==
  SiteListsChanged =>
    \A p \in AllIndexPaths(CatsOf(NormalisedPayload)) :
      /\ p \in AllIndexPaths(AfterCats)
      /\ SitesOf(NodeAt(AfterCats, p)) = SitesOf(NodeAt(CatsOf(NormalisedPayload), p))

-----------------------------------------------------------------------------
(* C26 *)

\* the items of the batch whose path names no category of the persisted tree
UnresolvedItems ==
  {k \in 1..Len(last.body.items) :
     PositionOfTitles(BeforeCats, last.body.items[k].path) = << >>}

BatchWithUnresolved ==
  /\ last.op \in {"batchAdd", "batchMove"}
  /\ HadDocument /\ Succeeded
  /\ \/ UnresolvedItems # {}
     \/ last.op = "batchMove" /\ PositionOfTitles(BeforeCats, last.body.target) = << >>

\* C26: an item of a batch whose path names no stored category is not
\* counted: 'added' is the number of sites the persisted tree gained, a
\* batch move into a target that does not resolve reports 'moved' 0 and
\* takes no site out of the tree, and the tree gains no category.
C26_CountsMatchTree ==
  BatchWithUnresolved =>
    /\ CountNodes(AfterCats) = CountNodes(BeforeCats)
    /\ last.op = "batchAdd" =>
         last.resp.data.added = CountSites(AfterCats) - CountSites(BeforeCats)
    /\ last.op = "batchMove" =>
         /\ CountSites(AfterCats) = CountSites(BeforeCats)
         /\ PositionOfTitles(BeforeCats, last.body.target) = << >> => last.resp.data.moved = 0

-----------------------------------------------------------------------------
(* Title-based site operations on a category that lists two sites of one    *)
(* title                                                                    *)

TwinDocs ==
  {Doc(<<Cat(A, A, <<S1, S3>>, << >>), Unc(<<S2>>)>>),
   Doc(<<Cat(A, A, <<S2, S3, S1>>, << >>), Unc(<< >>)>>)}

InitTwins ==
  /\ snapshot \in {<<d>> : d \in TwinDocs}
  /\ favicons = {}
  /\ last = NoRequest
  /\ nreq = 0
  /\ adminData = << >>
  /\ bundled = navigationData
  /\ kvBound = TRUE
  /\ Idle

NextTwins == UpdateSite \/ DeleteSite \/ BatchUpdateSites \/ BatchDeleteSites

SpecTwins == InitTwins /\ [][NextTwins]_vars

(* C27 *)

\* the category and the title the request served last names, for a batch of
\* one item; pos << >> when it names none
NamedSite ==
  CASE last.op \in {"updateSite", "deleteSite"} ->
         [pos |-> IF RootWithId(BeforeCats, last.body.categoryId) = 0 THEN << >>
                  ELSE <<RootWithId(BeforeCats, last.body.categoryId)>>,
          titles |-> {last.body.siteTitle}]
    [] last.op = "batchUpdate" /\ Len(last.body.items) = 1 ->
         [pos |-> PositionOfTitles(BeforeCats, last.body.items[1].path),
          titles |-> {last.body.items[1].title}]
    [] last.op = "batchDelete" /\ Len(last.body.items) = 1 ->
         [pos |-> PositionOfTitles(BeforeCats, last.body.items[1].path),
          titles |-> {last.body.items[1].titles[n] : n \in 1..Len(last.body.items[1].titles)}]
    [] OTHER -> [pos |-> << >>, titles |-> {}]

TitledAt(sites, t) == {i \in 1..Len(sites) : sites[i].title = t}

\* the request names, in a category of the persisted tree, one title that
\* two of the category's sites carry, and is answered success
NamesTwins ==
  /\ HadDocument /\ Succeeded
  /\ NamedSite.pos # << >>
  /\ \E t \in NamedSite.titles :
       Cardinality(TitledAt(SitesOf(NodeAt(BeforeCats, NamedSite.pos)), t)) = 2
  /\ \A t \in NamedSite.titles :
       Cardinality(TitledAt(SitesOf(NodeAt(BeforeCats, NamedSite.pos)), t)) \in {0, 2}

\* C27: update-site and delete-site, single or batch, change or remove
\* exactly one entry of two same-titled sites, the first, and leave the
\* other (and every other site of the category) as it was.
C27_FirstMatchOnly ==
  NamesTwins =>
    LET before == SitesOf(NodeAt(BeforeCats, NamedSite.pos))
        after == SitesOf(NodeAt(AfterCats, NamedSite.pos))
        t == CHOOSE x \in NamedSite.titles : TitledAt(before, x) # {}
        first == CHOOSE i \in TitledAt(before, t) : \A j \in TitledAt(before, t) : i <= j
    IN IF last.op \in {"deleteSite", "batchDelete"}
       THEN after = RemoveAt(before, first)
       ELSE /\ Len(after) = Len(before)
            /\ \A j \in 1..Len(before) : j # first => after[j] = before[j]

-----------------------------------------------------------------------------
(* src/src/server.js: GET /api/favicon/:host. The time is counted in days.  *)
(* A request answered from the edge cache touches nothing and is left out;  *)
(* the refresh is a promise that settles after the response was sent. The   *)
(* content type and the base64 text of an icon are one value, its data.     *)

SEVEN_DAYS == 7
MaxClock == 17

IconData == {"i1", "i2"}

\* the entry stored for host: << >> (none), or << [data, updatedAt] >>
StoredFavicon(host) == IF host \in favicons THEN <<favMeta[host]>> ELSE << >>

\* !stored || !stored.updatedAt || (Date.now() - stored.updatedAt) > 7 days
needsRefresh(stored, now) ==
  stored = << >> \/ now - stored[1].updatedAt > SEVEN_DAYS

\* putFavicon with the entry the manager finds (its cache first, then the
\* store): [ok, written, entry]
putFaviconEntry(existing, data, now) ==
  IF existing # << >> /\ existing[1].data = data
  THEN [ok |-> TRUE, written |-> FALSE, entry |-> existing[1]]
  ELSE [ok |-> TRUE, written |-> TRUE, entry |-> [data |-> data, updatedAt |-> now]]

InitFavicon ==
  /\ snapshot = <<navigationData>>
  /\ favicons \in SUBSET Hosts
  /\ last = NoRequest
  /\ nreq = 0
  /\ adminData = << >>
  /\ bundled = navigationData
  /\ kvBound = TRUE
  /\ Idle

\* time passes
Advance ==
  /\ \E d \in {1, SEVEN_DAYS} :
       /\ clock + d <= MaxClock
       /\ clock' = clock + d
  /\ UNCHANGED <<snapshot, favicons, last, nreq, adminData, bundled, kvBound,
                 inflight, favMeta>>

\* the endpoint on an edge-cache miss: the entry is read through a new
\* manager (which caches it), a refresh is started when it is needed, and
\* the stored icon, if any, is answered
GetFavicon ==
  /\ nreq < MaxRequests
  /\ \E host \in Hosts :
       LET stored == StoredFavicon(host)
           refresh == needsRefresh(stored, clock)
       IN /\ inflight' = IF refresh
                         THEN Append(inflight, [op |-> "refresh", host |-> host,
                                                cached |-> stored, pc |-> "fetch"])
                         ELSE inflight
          /\ last' = [op |-> "favicon", body |-> [host |-> host, refresh |-> refresh],
                      edit |-> << >>, before |-> snapshot,
                      resp |-> IF stored = << >>
                               THEN createErrorResponse("Not Found", StatusNamed("NOT_FOUND"))
                               ELSE createSuccessResponse([icon |-> stored[1].data]),
                      puts |-> << >>, bulk |-> << >>, mem |-> bundled]
  /\ nreq' = nreq + 1
  /\ UNCHANGED <<snapshot, favicons, adminData, bundled, kvBound, clock, favMeta>>

\* the download fails or answers no image: nothing is written
RefreshFailed ==
  \E i \in 1..Len(inflight) :
    /\ inflight[i].op = "refresh" /\ inflight[i].pc = "fetch"
    /\ inflight' = [inflight EXCEPT ![i].pc = "done"]
    /\ UNCHANGED <<snapshot, favicons, last, nreq, adminData, bundled, kvBound,
                   clock, favMeta>>

\* the download answers an image: kv.putFavicon(host, type, b64) on the
\* manager of the request that started the refresh
RefreshFetched ==
  \E i \in 1..Len(inflight) :
    /\ inflight[i].op = "refresh" /\ inflight[i].pc = "fetch"
    /\ \E data \in IconData :
         LET r == inflight[i]
             existing == IF r.cached # << >> THEN r.cached ELSE StoredFavicon(r.host)
             put == putFaviconEntry(existing, data, clock)
         IN /\ favicons' = IF put.written THEN favicons \cup {r.host} ELSE favicons
            /\ favMeta' = IF put.written THEN [favMeta EXCEPT ![r.host] = put.entry]
                          ELSE favMeta
            /\ last' = [op |-> "refresh",
                        body |-> [host |-> r.host, data |-> data, at |-> clock,
                                  stale |-> r.cached # << >>],
                        edit |-> << >>, before |-> snapshot,
                        resp |-> [success |-> put.ok],
                        puts |-> IF put.written THEN <<FavKey(r.host)>> ELSE << >>,
                        bulk |-> << >>, mem |-> bundled]
    /\ inflight' = [inflight EXCEPT ![i].pc = "done"]
    /\ UNCHANGED <<snapshot, nreq, adminData, bundled, kvBound, clock>>

NextFavicon == Advance \/ GetFavicon \/ RefreshFailed \/ RefreshFetched

SpecFavicon == InitFavicon /\ [][NextFavicon]_vars

(* C28 *)

\* the event before this state was the settled refresh of an entry that was
\* stale when it was requested: the icon was fetched and putFavicon
\* answered true
StaleEntryRefreshed ==
  /\ last.op = "refresh"
  /\ last.body.stale
  /\ Succeeded

\* C28: after the refresh of a stale entry that was fetched and for which
\* putFavicon answered true, for the next seven days the stored entry is
\* not stale (a request then starts no further refresh), also when the
\* fetched bytes equal the stored ones.
C28_RefreshClearsStaleness ==
  (StaleEntryRefreshed /\ clock - last.body.at <= SEVEN_DAYS)
    => ~needsRefresh(StoredFavicon(last.body.host), clock)

-----------------------------------------------------------------------------
(* getNavigationData called twice on one manager, on any stored value *)

\* const a = await kv.getNavigationData(); const b = await kv.getNavigationData()
ReadTwice ==
  /\ nreq < MaxRequests
  /\ \E r1 \in {getNavigationData(NewManager(snapshot))} :
       \E r2 \in {getNavigationData(r1.m)} :
         Served("readTwice", << >>, [kind |-> "read", path |-> << >>, arg |-> << >>],
                Outcome(r2.m, createSuccessResponse([first |-> r1.val, second |-> r2.val]),
                        << >>))
  /\ UNCHANGED <<favicons, adminData, bundled, kvBound, inflight, clock, favMeta>>

NextReads == ImportData \/ SaveAdminData \/ ReadTwice

SpecReads == InitBulk /\ [][NextReads]_vars

(* C29 *)

\* C29: two calls of getNavigationData on the same manager with no write in
\* between return the same result, whatever is stored, a stored object
\* without categories included.
C29_RepeatableRead ==
  last.op = "readTwice" => last.resp.data.first = last.resp.data.second

-----------------------------------------------------------------------------
(* The add-site dialog opened on a loaded document without reserved         *)
(* category, in a deployment whose binding may have been removed since the  *)
(* document was loaded (the save then answers 503)                          *)

UnreservedDocs ==
  {Doc(<< >>),
   DevTree,
   Doc(<<Cat(A, B, <<S1>>, << >>), Cat(B, A, <<S2>>, << >>)>>)}

InitProvision ==
  /\ snapshot \in {<<d>> : d \in UnreservedDocs}
  /\ favicons = {}
  /\ last = NoRequest
  /\ nreq = 0
  /\ adminData = snapshot
  /\ bundled = navigationData
  /\ kvBound \in BOOLEAN
  /\ Idle

SpecProvision == InitProvision /\ [][NextHeal]_vars

(* C30 *)

\* the save that was to create the reserved category failed
ProvisioningFailed ==
  /\ last.op = "ensureUncategorized"
  /\ last.edit.kind = "create"
  /\ ~Succeeded

\* C30: when the save that creates the reserved category fails inside
\* ensureUncategorizedCategory, the client's root list is what it was before
\* the call: the appended Uncategorized entry is gone, and no other category
\* was removed or moved.
C30_RollbackRestoresList ==
  ProvisioningFailed => adminData = <<last.edit.arg>>

====
